---- MODULE Spec2Model ----
(***************************************************************************)
(* Model of the mev-bot detection pipeline: the lookup caches (token,      *)
(* factory, pool), the opportunity evaluator, the bus consumer with its    *)
(* opportunity writer, the cleanup pass and the mempool tap.               *)
(*                                                                         *)
(* Conventions.                                                            *)
(*  - An address is a pair <<id, case>>: "lc" is the all-lowercase hex     *)
(*    form, "cs" the mixed-case (EIP-55 checksum) form that ethers returns *)
(*    from RPC reads and ABI decoding.  String equality of the code is     *)
(*    equality of pairs.                                                   *)
(*  - An optional value (undefined / null in the code) is a set with at    *)
(*    most one element: {} is undefined, {x} is the value x.               *)
(*  - A table is a sequence of rows in insertion order; the store's        *)
(*    unique indexes make a create on an existing key fail.                *)
(*  - A float that the code compares with a threshold is kept as an exact  *)
(*    fraction <<num, den>>.                                               *)
(***************************************************************************)
EXTENDS Integers, Sequences, FiniteSets, TLC

\* ------------------------------------------------------------------ bounds
MaxTicks == 1       \* clock advances
StartMs == 1000000  \* Date.now() when the model starts
TickMs == 300000    \* one clock advance, in ms
MaxHours == 2       \* hours the cleanup schedule is followed for
MaxOpps == 2        \* transactions the opportunity table holds rows of
MaxPending == 2     \* pending hashes the tap is handed
MaxProcs == 2       \* evaluations that run concurrently

\* ------------------------------------------------------- program constants
ChainId == 1
MAX_MESSAGE_AGE_MS == 600000
MAX_LIQUIDITY_USAGE == 50
MIN_RESERVE_RATIO == 10
MinImpactNum == 5
MinImpactDen == 1000
DefaultDecimals == 18
retryDelay == 500
HOUR_IN_MS == 3600000
maxRetries == 3

\* ---------------------------------------------------------------- options
None == {}
Some(x) == {x}
The(o) == CHOOSE x \in o : TRUE

\* -------------------------------------------------------------- addresses
ZeroAddress == <<"zero", "lc">>
Undefined == <<"undefined", "na">>
EmptyString == <<"", "na">>

AddressIds == {"ta", "tb", "rv2", "rv2b", "rv3", "ru", "f2", "f2b", "f3",
               "w", "p2", "p3", "p3c", "u1", "zero"}

Lc(id) == <<id, "lc">>
Cs(id) == IF id = "zero" THEN ZeroAddress ELSE <<id, "cs">>

isAddress(a) == a[1] \in AddressIds /\ a[2] \in {"lc", "cs"}

toLowerCase(a) == <<a[1], "lc">>

normalizeAddress(a) == IF a \in {Undefined, EmptyString} THEN a ELSE toLowerCase(a)

IsLowercase(a) == a = toLowerCase(a)

\* constants.universalRouter / v2Router / v3Router as written in the source:
\* v2Router[0] and v3Router[0] are lowercase literals, v2Router[1] mixed-case
universalRouter == <<Lc("ru")>>
v2Router == <<Lc("rv2"), Cs("rv2b")>>
v3Router == <<Lc("rv3")>>

isAddressInList(address, addressList) ==
    /\ address \notin {Undefined, EmptyString}
    /\ \E i \in DOMAIN addressList :
          normalizeAddress(addressList[i]) = normalizeAddress(address)

\* ------------------------------------------------------------------ tables
Rows(tbl) == {tbl[i] : i \in DOMAIN tbl}

\* index of the first row of tbl among the rows `matching`, 0 when none
FirstIdx(tbl, matching) ==
    LET S == {i \in DOMAIN tbl : tbl[i] \in matching}
    IN  IF S = {} THEN 0 ELSE CHOOSE i \in S : \A j \in S : i <= j

RowOpt(tbl, i) == IF i = 0 THEN None ELSE Some(tbl[i])

DeleteWhere(tbl, matching) == SelectSeq(tbl, LAMBDA r : r \notin matching)

\* ------------------------------------------------------- chain (RPC reads)
\* What the chain answers.  ethers returns every address in checksum form.
\* Router ru (the universal router) has no factory() method: the call throws.
ChainHasFactory(router) == router[1] \in {"rv2", "rv2b", "rv3"}

ChainFactory(router) ==
    CASE router[1] = "rv2" -> Cs("f2")
      [] router[1] = "rv2b" -> Cs("f2b")
      [] OTHER -> Cs("f3")

ChainWeth(router) == Cs("w")

\* getPair(tokenA, tokenB) / getPool(tokenA, tokenB, fee) of a factory:
\* factory f2 has the pair (ta, tb); factory f2b has none; factory f3 has
\* the (ta, tb) pools of the fee tiers 500 and 10000.
ChainGetPair(factory, a, b, routerType, fee) ==
    LET pair == {a[1], b[1]} = {"ta", "tb"}
    IN  CASE factory[1] = "f2" /\ pair -> Cs("p2")
          [] factory[1] = "f3" /\ pair /\ fee = Some(500) -> Cs("p3")
          [] factory[1] = "f3" /\ pair /\ fee = Some(10000) -> Cs("p3c")
          [] OTHER -> ZeroAddress

\* token0() of a pool contract
ChainToken0(pool) == Cs("ta")

\* decimals() of a token contract; u1 is not an ERC-20, its call fails
ChainDecimalsOk(token) == token[1] \in {"ta", "tb", "w"}

ChainDecimals(token) ==
    CASE token[1] = "ta" -> 2
      [] token[1] = "tb" -> 1
      [] OTHER -> 2

\* ------------------------------------------------------------ token cache
TokenIdx(tokenTbl, addr) ==
    FirstIdx(tokenTbl,
             {r \in Rows(tokenTbl) : r.chainId = ChainId /\ r.tokenAddress = addr})

getTokenFromDb(tokenTbl, tokenAddress) ==
    IF ~isAddress(tokenAddress) THEN None
    ELSE RowOpt(tokenTbl, TokenIdx(tokenTbl, toLowerCase(tokenAddress)))

fetchTokenFromChain(tokenAddress) ==
    IF ~isAddress(tokenAddress) THEN None
    ELSE Some([chainId |-> ChainId,
               tokenAddress |-> toLowerCase(tokenAddress),
               tokenDecimals |->
                   IF ChainDecimalsOk(tokenAddress)
                   THEN ChainDecimals(tokenAddress)
                   ELSE DefaultDecimals])

\* prisma.token.upsert on (chainId, tokenAddress)
addTokenToDb(tokenTbl, tokenInfo) ==
    LET normalizedAddress == toLowerCase(tokenInfo.tokenAddress)
        i == TokenIdx(tokenTbl, normalizedAddress)
    IN  IF i = 0
        THEN Append(tokenTbl, [chainId |-> ChainId,
                               tokenAddress |-> normalizedAddress,
                               tokenDecimals |-> tokenInfo.tokenDecimals])
        ELSE [tokenTbl EXCEPT
                 ![i].tokenDecimals = tokenInfo.tokenDecimals]

\* getToken that returns the token read from the chain without saving it
getTokenUnsaved(tokenTbl, tokenAddress) ==
    IF ~isAddress(tokenAddress) THEN [res |-> None, tbl |-> tokenTbl]
    ELSE LET dbToken == getTokenFromDb(tokenTbl, tokenAddress)
         IN  IF dbToken # None THEN [res |-> dbToken, tbl |-> tokenTbl]
             ELSE [res |-> fetchTokenFromChain(tokenAddress),
                   tbl |-> tokenTbl]

\* getToken run without interleaving: [res |-> TokenInfo option, tbl |-> table]
getToken(tokenTbl, tokenAddress) ==
    IF ~isAddress(tokenAddress) THEN [res |-> None, tbl |-> tokenTbl]
    ELSE LET dbToken == getTokenFromDb(tokenTbl, tokenAddress)
         IN  IF dbToken # None THEN [res |-> dbToken, tbl |-> tokenTbl]
             ELSE LET chainToken == fetchTokenFromChain(tokenAddress)
                      saved == addTokenToDb(tokenTbl, The(chainToken))
                  IN  [res |-> getTokenFromDb(saved, tokenAddress),
                       tbl |-> saved]

\* ---------------------------------------------------------- factory cache
FactoryIdx(factoryTbl, router) ==
    FirstIdx(factoryTbl, {r \in Rows(factoryTbl) : r.chainId = ChainId /\ r.router = router})

\* prisma.factoryAddress.findUnique: the router string as given
FactoryFindUnique(factoryTbl, router) ==
    RowOpt(factoryTbl, FactoryIdx(factoryTbl, router))

FactoryRow(router, version) ==
    [chainId |-> ChainId, router |-> router, routerType |-> version,
     factoryAddress |-> ChainFactory(router),
     wethAddress |-> ChainWeth(router)]

\* prisma.factoryAddress.create: fails on the (chainId, router) unique index
FactoryCreate(factoryTbl, row) ==
    IF FactoryIdx(factoryTbl, row.router) # 0
    THEN [ok |-> FALSE, tbl |-> factoryTbl]
    ELSE [ok |-> TRUE, tbl |-> Append(factoryTbl, row)]

\* getFactoryAddress run without interleaving.
\* kind: "ok" (value = factory address), "null", "throw"
getFactoryAddress(factoryTbl, router, version, rpcOk) ==
    IF ~isAddress(router)
    THEN [kind |-> "null", value |-> ZeroAddress, tbl |-> factoryTbl]
    ELSE LET factory == FactoryFindUnique(factoryTbl, router)
         IN  IF factory # None
             THEN [kind |-> "ok", value |-> The(factory).factoryAddress,
                   tbl |-> factoryTbl]
             ELSE IF ~rpcOk \/ ~ChainHasFactory(router)
             THEN [kind |-> "throw", value |-> ZeroAddress,
                   tbl |-> factoryTbl]
             ELSE LET ins == FactoryCreate(factoryTbl,
                                           FactoryRow(router, version))
                  IN  IF ins.ok
                      THEN [kind |-> "ok", value |-> ChainFactory(router),
                            tbl |-> ins.tbl]
                      ELSE [kind |-> "throw", value |-> ZeroAddress,
                            tbl |-> factoryTbl]

\* ------------------------------------------------------------- pool cache
isValidPoolAddress(poolAddress) ==
    poolAddress # ZeroAddress /\ poolAddress # toLowerCase(ZeroAddress)

PoolIdx(poolTbl, addr) ==
    FirstIdx(poolTbl, {r \in Rows(poolTbl) : r.chainId = ChainId /\ r.poolAddress = addr})

\* first lookup of findExistingPool: by pool address
findPoolByAddress(poolTbl, poolAddress) ==
    IF poolAddress = None THEN None
    ELSE RowOpt(poolTbl, PoolIdx(poolTbl, toLowerCase(The(poolAddress))))

\* fallback lookup of findExistingPool: by token pair and router type
findPoolByTokens(poolTbl, token0, token1, routerType) ==
    RowOpt(poolTbl,
           FirstIdx(poolTbl,
                    {r \in Rows(poolTbl) : /\ r.token0 = toLowerCase(token0)
                               /\ r.token1 = toLowerCase(token1)
                               /\ r.routerType = routerType}))

findExistingPool(poolTbl, token0, token1, routerType, poolAddress) ==
    LET poolByAddress == findPoolByAddress(poolTbl, poolAddress)
    IN  IF poolByAddress # None THEN poolByAddress
        ELSE findPoolByTokens(poolTbl, token0, token1, routerType)

\* a pool upsert that keys and stores the address as the factory returned it
PoolUpsertAsGiven(poolTbl, poolAddress, token0, token1, routerType, fee) ==
    LET i == PoolIdx(poolTbl, poolAddress)
    IN  IF i = 0
        THEN Append(poolTbl,
                    [chainId |-> ChainId, poolAddress |-> poolAddress,
                     token0 |-> token0, token1 |-> token1,
                     exists |-> isValidPoolAddress(poolAddress),
                     routerType |-> routerType,
                     fee |-> IF fee = None THEN 2500 ELSE The(fee)])
        ELSE poolTbl

\* prisma.pool.upsert on (chainId, poolAddress)
PoolUpsert(poolTbl, poolAddress, token0, token1, routerType, fee) ==
    LET addr == toLowerCase(poolAddress)
        i == PoolIdx(poolTbl, addr)
    IN  IF i = 0
        THEN Append(poolTbl,
                    [chainId |-> ChainId, poolAddress |-> addr,
                     token0 |-> token0, token1 |-> token1,
                     exists |-> isValidPoolAddress(poolAddress),
                     routerType |-> routerType,
                     fee |-> IF fee = None THEN 2500 ELSE The(fee)])
        ELSE [poolTbl EXCEPT ![i].token0 = token0, ![i].token1 = token1,
                             ![i].exists = isValidPoolAddress(poolAddress),
                             ![i].routerType = routerType]

\* The part of getPools after the factory answered poolAddress.
\* kind: "ok" (value = PoolInfo option, None is null)
PoolAfterFactory(poolTbl, token0, token1, routerType, fee, poolAddress) ==
    LET normalizedToken0 == toLowerCase(token0)
        normalizedToken1 == toLowerCase(token1)
        exists == isValidPoolAddress(poolAddress)
        existingPool == findExistingPool(poolTbl, normalizedToken0,
                            normalizedToken1, routerType, Some(poolAddress))
    IN  IF existingPool # None
        THEN IF ~isValidPoolAddress(The(existingPool).poolAddress)
             THEN [kind |-> "ok", value |-> None, tbl |-> poolTbl]
             ELSE [kind |-> "ok", value |-> existingPool, tbl |-> poolTbl]
        ELSE IF ~exists
        THEN [kind |-> "ok", value |-> None, tbl |-> poolTbl]
        ELSE LET saved == PoolUpsert(poolTbl, poolAddress, normalizedToken0,
                                     normalizedToken1, routerType, fee)
             IN  [kind |-> "ok",
                  value |-> findPoolByAddress(saved, Some(poolAddress)),
                  tbl |-> saved]

\* getPools run without interleaving.  rpc.factory: the router's factory()
\* read succeeds; rpc.pair: "ok", "timeout" or "error" for getPair / getPool.
\* Result: kind "ok" (value = PoolInfo option) or "throw"; asked = what the
\* factory answered, when it did.
getPools(factoryTbl, poolTbl, token0, token1, router, routerType, fee, rpc) ==
    IF ~isAddress(token0) \/ ~isAddress(token1)
    THEN [kind |-> "throw", value |-> None, asked |-> None,
          factories |-> factoryTbl, pools |-> poolTbl]
    ELSE
    LET f == getFactoryAddress(factoryTbl, router, routerType, rpc.factory)
    IN  IF f.kind = "throw"
        THEN [kind |-> "throw", value |-> None, asked |-> None,
              factories |-> f.tbl, pools |-> poolTbl]
        ELSE IF f.kind = "null"
        THEN [kind |-> "ok", value |-> None, asked |-> None,
              factories |-> f.tbl, pools |-> poolTbl]
        ELSE IF rpc.pair = "timeout"
        THEN LET existingPool == findExistingPool(poolTbl, token0, token1,
                                                  routerType, None)
             IN  IF existingPool # None
                    /\ isValidPoolAddress(The(existingPool).poolAddress)
                 THEN [kind |-> "ok", value |-> existingPool,
                       asked |-> None,
                       factories |-> f.tbl, pools |-> poolTbl]
                 ELSE [kind |-> "throw", value |-> None, asked |-> None,
                       factories |-> f.tbl, pools |-> poolTbl]
        ELSE IF rpc.pair = "error" \/ (routerType = "v3" /\ fee = None)
        THEN [kind |-> "throw", value |-> None, asked |-> None,
              factories |-> f.tbl, pools |-> poolTbl]
        ELSE LET poolAddress == ChainGetPair(f.value, token0, token1,
                                             routerType, fee)
                 r == PoolAfterFactory(poolTbl, token0, token1, routerType,
                                       fee, poolAddress)
             IN  [kind |-> r.kind, value |-> r.value,
                  asked |-> Some(poolAddress),
                  factories |-> f.tbl, pools |-> r.tbl]

\* ------------------------------------------------------------- arithmetic
RECURSIVE Pow10(_)
Pow10(d) == IF d = 0 THEN 1 ELSE 10 * Pow10(d - 1)

Min(a, b) == IF a <= b THEN a ELSE b

\* a float as an exact fraction <<num, den>>; den = 0 is NaN
NaN == <<0, 0>>
FracGE(f, n, d) == f[2] > 0 /\ f[1] * d >= n * f[2]
\* JS truthiness of a number: 0 and NaN are falsy
Truthy(f) == f[2] > 0 /\ f[1] # 0

\* ethers.formatUnits(value, decimals): the decimal numeral of
\* value / 10^decimals, kept as <<value, decimals>>
formatUnits(value, decimals) == <<value, decimals>>
IsPositiveDecimal(s) == s[1] > 0

\* a uint128 as <<hi, lo>> in base 10^6
MIN_V3_LIQUIDITY == <<1000000, 0>>
BigLess(a, b) == a[1] < b[1] \/ (a[1] = b[1] /\ a[2] < b[2])

\* ------------------------------------------------------ pool-state readers
\* getV2PriceImpact on reserves <<reserve0, reserve1>>.
\* Result None: the BigInt division threw (division by zero).
getV2PriceImpact(poolAddress, tokenIn, amountIn, reserves) ==
    LET isToken0In == toLowerCase(tokenIn) = toLowerCase(ChainToken0(poolAddress))
        reserveIn == IF isToken0In THEN reserves[1] ELSE reserves[2]
        reserveOut == IF isToken0In THEN reserves[2] ELSE reserves[1]
        amountInWithFee == (amountIn * 997) \div 1000
        numerator == amountInWithFee * reserveOut
        denominator == reserveIn * 1000 + amountInWithFee
    IN  IF denominator = 0 THEN None
        ELSE LET amountOut == numerator \div denominator
                 \* priceBefore = rOut / rIn, priceAfter = (rOut - aOut) / (rIn + aIn)
                 \* impact = |priceBefore - priceAfter| / priceBefore
                 den == (reserveIn + amountIn) * reserveOut
                 num == den - (reserveOut - amountOut) * reserveIn
                 impact == IF reserveIn = 0 \/ reserveOut = 0 THEN NaN
                           ELSE <<IF num < 0 THEN -num ELSE num, den>>
             IN  Some([priceImpact |-> impact, amountOut |-> amountOut,
                       reserveIn |-> reserveIn, reserveOut |-> reserveOut])

\* getMidPrice: price1Over0 = <<n, d>> oriented to tokenOut per tokenIn
getMidPrice(poolAddress, tokenIn, tokenOut, price1Over0) ==
    LET token0 == toLowerCase(ChainToken0(poolAddress))
        token1 == IF token0 = Lc("ta") THEN Lc("tb") ELSE Lc("ta")
        tIn == toLowerCase(tokenIn)
        tOut == toLowerCase(tokenOut)
    IN  IF tIn = token0 /\ tOut = token1 THEN price1Over0
        ELSE IF tIn = token1 /\ tOut = token0
        THEN IF price1Over0[1] = 0 THEN <<0, 1>>
             ELSE <<price1Over0[2], price1Over0[1]>>
        ELSE price1Over0

\* getV3PriceImpact; quote = None: the quoter call reverted (throws)
getV3PriceImpact(poolAddress, tokenIn, tokenOut, amountIn, decimalsIn, decimalsOut, price1Over0, quote) ==
    IF quote = None THEN None
    ELSE
    LET midPrice == getMidPrice(poolAddress, tokenIn, tokenOut, price1Over0)
        amountOut == The(quote)
        m == Min(decimalsIn, decimalsOut)
        \* quotedPrice = received / sent
        quotedPrice == IF amountIn = 0 THEN <<0, 1>>
                       ELSE <<amountOut * Pow10(decimalsIn - m),
                              amountIn * Pow10(decimalsOut - m)>>
        priceImpact == IF midPrice[1] = 0 THEN <<0, 1>>
                       ELSE <<quotedPrice[1] * midPrice[2]
                                 - midPrice[1] * quotedPrice[2],
                              midPrice[1] * quotedPrice[2]>>
    IN  Some([priceImpact |-> priceImpact, amountOut |-> amountOut])

\* ---------------------------------------------------- opportunity evaluator
Verdict(isOpportunity, reason, poolAddress, dIn, dOut) ==
    [isOpportunity |-> isOpportunity, profitPotential |-> None,
     priceImpact |-> None, poolAddress |-> poolAddress,
     tokenInDecimals |-> dIn, tokenOutDecimals |-> dOut, reason |-> reason,
     timeToSubmitSeconds |-> None, deadlineTimestamp |-> None,
     isExpired |-> FALSE]

\* amountInToCheck: amountIn, or amountInMax when amountIn is zero
AmountInToCheck(decodedTx) ==
    IF decodedTx.amountIn = 0 /\ decodedTx.amountInMax # None
       /\ The(decodedTx.amountInMax) > 0
    THEN The(decodedTx.amountInMax)
    ELSE decodedTx.amountIn

\* The liquidity gate without the reserve-ratio rule.
LiquidityCheckNoRatio(decodedTx, pool, amountInToCheck, rpc) ==
    IF amountInToCheck <= 0 \/ ~rpc.liqOk THEN None
    ELSE IF decodedTx.routerType = "v2"
    THEN LET token0 == toLowerCase(ChainToken0(pool.poolAddress))
             tokenInLower == toLowerCase(decodedTx.tokenIn)
             reserveIn == IF tokenInLower = token0 THEN rpc.reserves[1]
                          ELSE rpc.reserves[2]
             maxTradeSize == (reserveIn * MAX_LIQUIDITY_USAGE) \div 100
         IN  IF amountInToCheck > maxTradeSize
             THEN Some("Insufficient liquidity")
             ELSE None
    ELSE IF rpc.liquidity = <<0, 0>> THEN Some("Zero liquidity in V3 pool")
    ELSE IF BigLess(rpc.liquidity, MIN_V3_LIQUIDITY)
    THEN Some("Very low V3 liquidity")
    ELSE None

\* The liquidity gate that rejects the swap when its read throws.
LiquidityCheckFailClosed(decodedTx, pool, amountInToCheck, rpc) ==
    IF amountInToCheck <= 0 THEN None
    ELSE IF ~rpc.liqOk THEN Some("Liquidity check failed")
    ELSE IF decodedTx.routerType = "v2"
    THEN LET token0 == toLowerCase(ChainToken0(pool.poolAddress))
             tokenInLower == toLowerCase(decodedTx.tokenIn)
             reserveIn == IF tokenInLower = token0 THEN rpc.reserves[1]
                          ELSE rpc.reserves[2]
             maxTradeSize == (reserveIn * MAX_LIQUIDITY_USAGE) \div 100
         IN  IF amountInToCheck > maxTradeSize
             THEN Some("Insufficient liquidity")
             ELSE IF reserveIn < amountInToCheck * MIN_RESERVE_RATIO
             THEN Some("Low liquidity")
             ELSE None
    ELSE IF rpc.liquidity = <<0, 0>> THEN Some("Zero liquidity in V3 pool")
    ELSE IF BigLess(rpc.liquidity, MIN_V3_LIQUIDITY)
    THEN Some("Very low V3 liquidity")
    ELSE None

\* The liquidity gate: the rejection reason, or None when the check passes,
\* is skipped, or its read throws.
LiquidityCheck(decodedTx, pool, amountInToCheck, rpc) ==
    IF amountInToCheck <= 0 \/ ~rpc.liqOk THEN None
    ELSE IF decodedTx.routerType = "v2"
    THEN LET token0 == toLowerCase(ChainToken0(pool.poolAddress))
             tokenInLower == toLowerCase(decodedTx.tokenIn)
             reserveIn == IF tokenInLower = token0 THEN rpc.reserves[1]
                          ELSE rpc.reserves[2]
             maxTradeSize == (reserveIn * MAX_LIQUIDITY_USAGE) \div 100
         IN  IF amountInToCheck > maxTradeSize
             THEN Some("Insufficient liquidity")
             ELSE IF reserveIn < amountInToCheck * MIN_RESERVE_RATIO
             THEN Some("Low liquidity")
             ELSE None
    ELSE IF rpc.liquidity = <<0, 0>> THEN Some("Zero liquidity in V3 pool")
    ELSE IF BigLess(rpc.liquidity, MIN_V3_LIQUIDITY)
    THEN Some("Very low V3 liquidity")
    ELSE None

\* The price-impact step reading the swap's amountIn field in both families.
PriceImpactStepAmountIn(decodedTx, pool, amountInToCheck, dIn, dOut, rpc) ==
    IF ~rpc.priceOk THEN None
    ELSE IF decodedTx.routerType = "v2"
    THEN IF decodedTx.amountIn > 0
         THEN getV2PriceImpact(pool.poolAddress, decodedTx.tokenIn,
                               decodedTx.amountIn, rpc.reserves)
         ELSE None
    ELSE IF decodedTx.amountIn > 0 /\ decodedTx.fee # None
    THEN getV3PriceImpact(pool.poolAddress, decodedTx.tokenIn,
                          decodedTx.tokenOut, decodedTx.amountIn, dIn, dOut,
                          rpc.mid, rpc.quote)
    ELSE None

\* The price-impact step: None when it is skipped or throws.
PriceImpactStep(decodedTx, pool, amountInToCheck, dIn, dOut, rpc) ==
    IF ~rpc.priceOk THEN None
    ELSE IF decodedTx.routerType = "v2"
    THEN IF amountInToCheck > 0
         THEN getV2PriceImpact(pool.poolAddress, decodedTx.tokenIn,
                               amountInToCheck, rpc.reserves)
         ELSE None
    ELSE IF decodedTx.amountIn > 0 /\ decodedTx.fee # None
    THEN getV3PriceImpact(pool.poolAddress, decodedTx.tokenIn,
                          decodedTx.tokenOut, decodedTx.amountIn, dIn, dOut,
                          rpc.mid, rpc.quote)
    ELSE None

\* The profit step: profitPotential as a bigint option
ProfitStep(decodedTx, calculatedAmountOut) ==
    IF calculatedAmountOut = None \/ The(calculatedAmountOut) = 0
       \/ decodedTx.amountOutMin = None
    THEN None
    ELSE IF The(decodedTx.amountOutMin) = 0 THEN None
    ELSE LET expectedOut == The(calculatedAmountOut)
             minOut == The(decodedTx.amountOutMin)
         IN  IF expectedOut > minOut THEN Some(expectedOut - minOut)
             ELSE IF expectedOut = minOut THEN Some(0)
             ELSE None

\* The deadline step at clock nowMs
DeadlineStep(decodedTx, nowMs) ==
    IF decodedTx.deadline = None \/ The(decodedTx.deadline) = 0
    THEN [timeToSubmitSeconds |-> None, deadlineTimestamp |-> None,
          isExpired |-> FALSE]
    ELSE LET deadlineTimestamp == The(decodedTx.deadline)
             currentTimestamp == nowMs \div 1000
             timeRemaining == deadlineTimestamp - currentTimestamp
         IN  IF timeRemaining > 0
             THEN [timeToSubmitSeconds |-> Some(timeRemaining),
                   deadlineTimestamp |-> Some(deadlineTimestamp),
                   isExpired |-> FALSE]
             ELSE [timeToSubmitSeconds |-> Some(0),
                   deadlineTimestamp |-> Some(deadlineTimestamp),
                   isExpired |-> TRUE]

\* The gate of the verdict without the price-impact criterion
IsOpportunityProfitOnly(profitPotential, priceImpact) ==
    profitPotential # None /\ The(profitPotential) > 0

\* The gate of the verdict
IsOpportunity(profitPotential, priceImpact) ==
    LET isProfitable == profitPotential # None /\ The(profitPotential) > 0
        hasSignificantImpact ==
            priceImpact # None
            /\ FracGE(The(priceImpact), MinImpactNum, MinImpactDen)
    IN  isProfitable /\ hasSignificantImpact

\* The verdict once price impact, profit and deadline are known
EvaluatedVerdict(pool, dIn, dOut, priceImpact, profitPotential, d) ==
    [isOpportunity |-> IsOpportunity(profitPotential, priceImpact),
     profitPotential |->
         IF profitPotential = None THEN None
         ELSE Some(formatUnits(The(profitPotential), dOut)),
     priceImpact |-> priceImpact,
     poolAddress |-> Some(pool.poolAddress),
     tokenInDecimals |-> Some(dIn), tokenOutDecimals |-> Some(dOut),
     reason |-> IF IsOpportunity(profitPotential, priceImpact)
                THEN "Profitable opportunity detected"
                ELSE IF priceImpact # None
                        /\ FracGE(The(priceImpact), MinImpactNum, MinImpactDen)
                THEN "Price impact but no profit"
                ELSE IF d.isExpired THEN "Deadline expired"
                ELSE "No significant opportunity",
     timeToSubmitSeconds |-> d.timeToSubmitSeconds,
     deadlineTimestamp |-> d.deadlineTimestamp,
     isExpired |-> d.isExpired]

\* The steps of detectOpportunity after the pool was found.
\* impact: what the price-impact step returned, None when it threw
EvaluatePool(decodedTx, pool, dIn, dOut, rpc, nowMs) ==
    The({IF rejected # None
         THEN Verdict(FALSE, The(rejected), Some(pool.poolAddress),
                      Some(dIn), Some(dOut))
         ELSE The({EvaluatedVerdict(
                       pool, dIn, dOut,
                       IF impact = None THEN None
                       ELSE Some(The(impact).priceImpact),
                       ProfitStep(decodedTx,
                                  IF impact = None THEN None
                                  ELSE Some(The(impact).amountOut)),
                       DeadlineStep(decodedTx, nowMs)) :
                   impact \in {PriceImpactStep(decodedTx, pool,
                                               AmountInToCheck(decodedTx),
                                               dIn, dOut, rpc)}}) :
         rejected \in {LiquidityCheck(decodedTx, pool,
                                      AmountInToCheck(decodedTx), rpc)}})

\* The router handed to the pool cache when the allow-list is compared as
\* written.
ActualRouterAddressExact(decodedTx, routerAddress) ==
    IF \E i \in DOMAIN universalRouter : universalRouter[i] = routerAddress
    THEN IF decodedTx.routerType = "v2" THEN v2Router[1] ELSE v3Router[1]
    ELSE routerAddress

\* The router handed to the pool cache
ActualRouterAddress(decodedTx, routerAddress) ==
    IF isAddressInList(routerAddress, universalRouter)
    THEN IF decodedTx.routerType = "v2" THEN v2Router[1] ELSE v3Router[1]
    ELSE routerAddress

\* What detectOpportunity returns with the tables it leaves
Detected(verdict, tokenTbl, factoryTbl, poolTbl, asked, pool, poolCalled) ==
    [verdict |-> verdict, tokens |-> tokenTbl, factories |-> factoryTbl,
     pools |-> poolTbl, asked |-> asked, pool |-> pool,
     poolCalled |-> poolCalled]

\* detectOpportunity run without interleaving; tIn, tOut: the getToken
\* results, p: the getPools result
detectOpportunity(decodedTx, routerAddress, tokenTbl, factoryTbl, poolTbl, rpc, nowMs) ==
    The({IF tIn.res = None \/ tOut.res = None
         THEN Detected(Verdict(FALSE, "Token information not available",
                               None, None, None),
                       tOut.tbl, factoryTbl, poolTbl, None, None, FALSE)
         ELSE The({IF p.kind = "throw"
                   THEN Detected(Verdict(FALSE, "Error", None, None, None),
                                 tOut.tbl, p.factories, p.pools, p.asked,
                                 None, TRUE)
                   ELSE IF p.value = None
                   THEN Detected(Verdict(FALSE, "Pool not found",
                                         None, None, None),
                                 tOut.tbl, p.factories, p.pools, p.asked,
                                 None, TRUE)
                   ELSE Detected(EvaluatePool(decodedTx, The(p.value),
                                     The(tIn.res).tokenDecimals,
                                     The(tOut.res).tokenDecimals, rpc, nowMs),
                                 tOut.tbl, p.factories, p.pools, p.asked,
                                 p.value, TRUE) :
                   p \in {getPools(factoryTbl, poolTbl, decodedTx.tokenIn,
                              decodedTx.tokenOut,
                              ActualRouterAddress(decodedTx, routerAddress),
                              decodedTx.routerType, decodedTx.fee, rpc)}}) :
         tIn \in {getToken(tokenTbl, decodedTx.tokenIn)},
         tOut \in {getToken(getToken(tokenTbl, decodedTx.tokenIn).tbl,
                            decodedTx.tokenOut)}})

\* ---------------------------------------------------------------- decoders
\* A DecodedTransaction.  Decimal strings of integers are kept as the
\* integer; an absent (undefined) field is None.
DecodedTx(router, method, tokenIn, tokenOut, amountIn, amountOut, deadline, fee, recipient, amountOutMin, payerIsUser, amountInMax, routerType) ==
    [router |-> router, method |-> method, tokenIn |-> tokenIn,
     tokenOut |-> tokenOut, amountIn |-> amountIn, amountOut |-> amountOut,
     deadline |-> deadline, fee |-> fee, recipient |-> recipient,
     amountOutMin |-> amountOutMin, payerIsUser |-> payerIsUser,
     amountInMax |-> amountInMax, routerType |-> routerType]

Last(seq) == seq[Len(seq)]

\* decodeV2RouterTx: None is null.  tx.data.abi = "v2" when the selector is
\* one of the V2 router ABI; a0, a1 are the leading uint arguments.
decodeV2RouterTx(tx) ==
    IF tx.data.abi # "v2" THEN None
    ELSE
    LET d == tx.data
        method == d.name
        path0 == IF Len(d.path) = 0 THEN Undefined ELSE d.path[1]
        pathLast == IF Len(d.path) = 0 THEN Undefined ELSE Last(d.path)
        \* path?.[0] || zero address, path?.[path.length - 1] || zero address
        wethFirst == IF Len(d.path) = 0 THEN ZeroAddress ELSE d.path[1]
        wethLast == IF Len(d.path) = 0 THEN ZeroAddress ELSE Last(d.path)
    IN  IF method \in {"swapExactTokensForTokens",
                    "swapExactTokensForTokensSupportingFeeOnTransferTokens"}
        THEN Some(DecodedTx(tx.to, method, path0, pathLast, d.a0,
                            Some(d.a1), Some(d.deadline), Some(0), d.to,
                            Some(d.a1), Some(TRUE), Some(0), "v2"))
        ELSE IF method = "swapTokensForExactTokens"
        THEN Some(DecodedTx(tx.to, method, path0, pathLast, 0,
                            Some(d.a0), Some(d.deadline), Some(0), d.to,
                            Some(0), Some(TRUE), Some(d.a1), "v2"))
        ELSE IF method \in {"swapExactETHForTokens",
                    "swapExactETHForTokensSupportingFeeOnTransferTokens"}
        THEN Some(DecodedTx(tx.to, method, wethFirst, pathLast, tx.value,
                            Some(d.a0), Some(d.deadline), Some(0), d.to,
                            Some(d.a0), Some(TRUE), Some(0), "v2"))
        ELSE IF method \in {"swapExactTokensForETH",
                    "swapExactTokensForETHSupportingFeeOnTransferTokens"}
        THEN Some(DecodedTx(tx.to, method, path0, wethLast, d.a0,
                            Some(d.a1), Some(d.deadline), Some(0), d.to,
                            Some(d.a1), Some(TRUE), Some(0), "v2"))
        ELSE IF method = "swapETHForExactTokens"
        THEN Some(DecodedTx(tx.to, method, wethFirst, pathLast, tx.value,
                            Some(d.a0), Some(d.deadline), Some(0), d.to,
                            Some(0), Some(TRUE), Some(0), "v2"))
        ELSE IF method = "swapTokensForExactETH"
        THEN Some(DecodedTx(tx.to, method, path0, wethLast, d.a1,
                            Some(d.a0), Some(d.deadline), Some(0), d.to,
                            Some(0), Some(TRUE), Some(d.a1), "v2"))
        ELSE None

\* decodeV3Path of the V3 router decoder: path = [tokens, fees]
V3RouterPath(path) ==
    [tokenIn |-> IF Len(path.tokens) = 0 THEN Undefined
                 ELSE normalizeAddress(path.tokens[1]),
     tokenOut |-> IF Len(path.tokens) = 0 THEN Undefined
                  ELSE normalizeAddress(Last(path.tokens)),
     fees |-> IF Len(path.fees) = 0 THEN 0 ELSE Last(path.fees)]

\* decodeV3RouterTx: a0 is amountIn / amountOut, a1 is amountOutMinimum /
\* amountInMaximum of the params struct
decodeV3RouterTx(tx) ==
    IF tx.data.abi # "v3" THEN None
    ELSE
    LET d == tx.data
        method == d.name
    IN  IF method = "exactInputSingle"
        THEN Some(DecodedTx(tx.to, method, normalizeAddress(d.tokenIn),
                            normalizeAddress(d.tokenOut), d.a0, Some(d.a1),
                            Some(d.deadline), Some(d.fee),
                            normalizeAddress(d.recipient), Some(d.a1),
                            Some(TRUE), Some(0), "v3"))
        ELSE IF method = "exactOutputSingle"
        THEN Some(DecodedTx(tx.to, method, normalizeAddress(d.tokenIn),
                            normalizeAddress(d.tokenOut), d.a1, Some(d.a0),
                            Some(d.deadline), Some(d.fee),
                            normalizeAddress(d.recipient), Some(d.a1),
                            Some(TRUE), Some(0), "v3"))
        ELSE IF method = "exactInput"
        THEN LET decodedPath == V3RouterPath(d.path)
             IN  Some(DecodedTx(tx.to, method, decodedPath.tokenIn,
                            decodedPath.tokenOut, d.a0, Some(0),
                            Some(d.deadline), Some(decodedPath.fees),
                            normalizeAddress(d.recipient), Some(d.a1),
                            Some(TRUE), Some(0), "v3"))
        ELSE IF method = "exactOutput"
        THEN LET decodedPath == V3RouterPath(d.path)
             IN  Some(DecodedTx(tx.to, method, decodedPath.tokenIn,
                            decodedPath.tokenOut, d.a1, Some(d.a0),
                            Some(d.deadline), Some(decodedPath.fees),
                            normalizeAddress(d.recipient), Some(d.a0),
                            Some(TRUE), Some(d.a1), "v3"))
        ELSE None

\* CMD_TYPE of the universal-router decoder
CMD_TYPE(cmd) ==
    CASE cmd = 0 -> "V3_EXACT_IN"
      [] cmd = 1 -> "V3_EXACT_OUT"
      [] cmd = 8 -> "V2_EXACT_IN"
      [] cmd = 9 -> "V2_EXACT_OUT"
      [] OTHER -> "UNKNOWN"

\* The args object of one sub-action.  An input is [shape, recipient, x1, x2,
\* path, payerIsUser]; shape "v3" carries a packed path, "v2" an address
\* array; a tuple whose shape does not fit the command fails to ABI-decode
\* and leaves {raw, error}: every named field undefined.
URArgs(type, input) ==
    LET v3 == type \in {"V3_EXACT_IN", "V3_EXACT_OUT"}
        ok == input # None /\ The(input).shape = (IF v3 THEN "v3" ELSE "v2")
        in == The(input)
    IN  IF ~ok
        THEN [tokenIn |-> Undefined, tokenOut |-> Undefined,
              amountIn |-> None, amountOut |-> None, fees |-> None,
              recipient |-> Undefined, amountOutMinimum |-> None,
              payerIsUser |-> None, amountInMax |-> None]
        ELSE IF type = "V3_EXACT_IN"
        THEN [tokenIn |-> IF Len(in.path.tokens) = 0 THEN EmptyString
                          ELSE Lc(in.path.tokens[1][1]),
              tokenOut |-> IF Len(in.path.tokens) = 0 THEN EmptyString
                           ELSE Lc(Last(in.path.tokens)[1]),
              amountIn |-> Some(in.x1), amountOut |-> None,
              fees |-> Some(IF Len(in.path.fees) = 0 THEN 0
                            ELSE Last(in.path.fees)),
              recipient |-> in.recipient,
              amountOutMinimum |-> Some(in.x2),
              payerIsUser |-> Some(in.payerIsUser), amountInMax |-> None]
        ELSE IF type = "V3_EXACT_OUT"
        THEN [tokenIn |-> IF Len(in.path.tokens) = 0 THEN EmptyString
                          ELSE Lc(in.path.tokens[1][1]),
              tokenOut |-> IF Len(in.path.tokens) = 0 THEN EmptyString
                           ELSE Lc(Last(in.path.tokens)[1]),
              amountIn |-> None, amountOut |-> Some(in.x1),
              fees |-> Some(IF Len(in.path.fees) = 0 THEN 0
                            ELSE Last(in.path.fees)),
              recipient |-> in.recipient, amountOutMinimum |-> None,
              payerIsUser |-> Some(in.payerIsUser), amountInMax |-> None]
        ELSE \* V2_EXACT_IN and V2_EXACT_OUT: decodeV2Path takes path[0], path[1]
             [tokenIn |-> IF Len(in.path) < 1 THEN Undefined ELSE in.path[1],
              tokenOut |-> IF Len(in.path) < 2 THEN Undefined ELSE in.path[2],
              amountIn |-> Some(in.x1), amountOut |-> None, fees |-> None,
              recipient |-> in.recipient, amountOutMinimum |-> None,
              payerIsUser |-> Some(in.payerIsUser),
              amountInMax |-> IF type = "V2_EXACT_OUT" THEN Some(in.x2)
                              ELSE None]

URAction(tx, type, input, routerType) ==
    LET args == URArgs(type, input)
    IN  DecodedTx(tx.to, type, args.tokenIn, args.tokenOut,
                  IF args.amountIn = None THEN 0 ELSE The(args.amountIn),
                  IF args.amountOut = None THEN Some(0) ELSE args.amountOut,
                  Some(tx.data.deadline), args.fees, args.recipient,
                  args.amountOutMinimum, args.payerIsUser,
                  IF args.amountInMax = None THEN Some(0)
                  ELSE args.amountInMax,
                  routerType)

RECURSIVE URActionsFromKeepUnknown(_, _)
\* a command loop that pushes an action for every command byte
URActionsFromKeepUnknown(tx, i) ==
    IF i > Len(tx.data.commands) THEN <<>>
    ELSE LET type == CMD_TYPE(tx.data.commands[i])
             inputBytes == IF i <= Len(tx.data.inputs)
                           THEN Some(tx.data.inputs[i]) ELSE None
         IN  <<URAction(tx, type, inputBytes,
                        IF type \in {"V2_EXACT_IN", "V2_EXACT_OUT"}
                        THEN "v2" ELSE "v3")>>
             \o URActionsFromKeepUnknown(tx, i + 1)

RECURSIVE URActionsFrom(_, _)
URActionsFrom(tx, i) ==
    IF i > Len(tx.data.commands) THEN <<>>
    ELSE LET type == CMD_TYPE(tx.data.commands[i])
             inputBytes == IF i <= Len(tx.data.inputs)
                           THEN Some(tx.data.inputs[i]) ELSE None
             rest == URActionsFrom(tx, i + 1)
         IN  IF type = "UNKNOWN" THEN rest
             ELSE <<URAction(tx, type, inputBytes,
                             IF type \in {"V3_EXACT_IN", "V3_EXACT_OUT"}
                             THEN "v3" ELSE "v2")>> \o rest

\* decodeUniversalRouterFull: None is null, otherwise the list of actions
decodeUniversalRouterFull(tx) ==
    IF tx.data.abi # "ur" THEN None
    ELSE Some(URActionsFrom(tx, 1))

\* ------------------------------------------------------------- wire format
\* a conversion that keeps the last decimal digit only
toStringLastDigit(n) == <<n % 10>>

RECURSIVE toString(_)
\* bigint.toString(): the decimal digits, most significant first
toString(n) == IF n < 10 THEN <<n>> ELSE Append(toString(n \div 10), n % 10)

RECURSIVE BigInt(_)
\* BigInt(decimal string)
BigInt(str) == IF Len(str) = 0 THEN 0
               ELSE 10 * BigInt(SubSeq(str, 1, Len(str) - 1)) + Last(str)

\* serializeDecodedTx (tap and consumer): amountIn becomes a decimal string
serializeDecodedTx(tx) == [tx EXCEPT !.amountIn = toString(tx.amountIn)]

\* the envelope sendToKafka builds; blockNumber is always undefined there
Envelope(txHash, decodedTx, routerAddress, blockNumber, timestamp) ==
    [txHash |-> txHash, blockNumber |-> blockNumber,
     decodedTx |-> serializeDecodedTx(decodedTx),
     routerAddress |-> routerAddress, timestamp |-> timestamp]

\* ------------------------------------------------- pending transactions
V3In == [shape |-> "v3", recipient |-> Cs("u1"), x1 |-> 10, x2 |-> 1,
         path |-> [tokens |-> <<Cs("ta"), Cs("tb")>>, fees |-> <<500>>],
         payerIsUser |-> TRUE]
V2In == [shape |-> "v2", recipient |-> Cs("u1"), x1 |-> 2, x2 |-> 1,
         path |-> <<Cs("ta"), Cs("tb")>>, payerIsUser |-> TRUE]
OtherIn == [shape |-> "other"]

\* The transactions the mempool can hold (blockNumber is set by the tap's read)
Txs ==
    << [hash |-> "hv2", to |-> Cs("rv2"), value |-> 0,
        data |-> [abi |-> "v2", name |-> "swapExactTokensForTokens",
                  a0 |-> 2, a1 |-> 1, path |-> <<Cs("ta"), Cs("tb")>>,
                  to |-> Cs("u1"), deadline |-> 1300]],
       [hash |-> "hv2o", to |-> Cs("rv2"), value |-> 0,
        data |-> [abi |-> "v2", name |-> "swapTokensForExactTokens",
                  a0 |-> 1, a1 |-> 2, path |-> <<Cs("ta"), Cs("tb")>>,
                  to |-> Cs("u1"), deadline |-> 1300]],
       [hash |-> "hv3", to |-> Cs("rv3"), value |-> 0,
        data |-> [abi |-> "v3", name |-> "exactInputSingle",
                  tokenIn |-> Cs("ta"), tokenOut |-> Cs("tb"), fee |-> 500,
                  recipient |-> Cs("u1"), deadline |-> 1300,
                  a0 |-> 10, a1 |-> 1]],
       [hash |-> "hv3b", to |-> Cs("rv3"), value |-> 0,
        data |-> [abi |-> "v3", name |-> "exactInputSingle",
                  tokenIn |-> Cs("ta"), tokenOut |-> Cs("tb"), fee |-> 3000,
                  recipient |-> Cs("u1"), deadline |-> 1300,
                  a0 |-> 10, a1 |-> 1]],
       [hash |-> "hur", to |-> Cs("ru"), value |-> 0,
        data |-> [abi |-> "ur", commands |-> <<0, 11, 8>>,
                  inputs |-> <<V3In, OtherIn, V2In>>, deadline |-> 1200]],
       [hash |-> "hurx", to |-> Cs("ru"), value |-> 0,
        data |-> [abi |-> "ur", commands |-> <<11>>,
                  inputs |-> <<OtherIn>>, deadline |-> 1300]],
       [hash |-> "hbad", to |-> Cs("rv2"), value |-> 0,
        data |-> [abi |-> "none"]],
       [hash |-> "hv2e", to |-> Cs("rv2"), value |-> 1205,
        data |-> [abi |-> "v2", name |-> "swapExactETHForTokens",
                  a0 |-> 1, a1 |-> 0, path |-> <<Cs("w"), Cs("tb")>>,
                  to |-> Cs("u1"), deadline |-> 1300]],
       [hash |-> "hv3p", to |-> Cs("rv3"), value |-> 0,
        data |-> [abi |-> "v3", name |-> "exactOutput",
                  path |-> [tokens |-> <<Cs("tb"), Cs("ta")>>,
                            fees |-> <<500>>],
                  recipient |-> Cs("u1"), deadline |-> 1300,
                  a0 |-> 7, a1 |-> 90]],
       [hash |-> "huro", to |-> Cs("ru"), value |-> 0,
        data |-> [abi |-> "ur", commands |-> <<9, 1>>,
                  inputs |-> <<V2In, V3In>>, deadline |-> 1300]],
       [hash |-> "hurm", to |-> Cs("ru"), value |-> 0,
        data |-> [abi |-> "ur", commands |-> <<8>>,
                  inputs |-> <<OtherIn>>, deadline |-> 1300]],
       [hash |-> "hbad3", to |-> Cs("rv3"), value |-> 0,
        data |-> [abi |-> "none"]] >>

\* What the tap's routing decodes for a transaction: the list of swaps it
\* goes on to publish
Decoded(tx) ==
    (IF isAddressInList(tx.to, universalRouter)
     THEN LET decoded == decodeUniversalRouterFull(tx)
          IN  IF decoded = None THEN <<>> ELSE The(decoded)
     ELSE <<>>)
    \o (IF isAddressInList(tx.to, v2Router)
        THEN LET decoded == decodeV2RouterTx(tx)
             IN  IF decoded = None THEN <<>> ELSE <<The(decoded)>>
        ELSE <<>>)
    \o (IF isAddressInList(tx.to, v3Router)
        THEN LET decoded == decodeV3RouterTx(tx)
             IN  IF decoded = None THEN <<>> ELSE <<The(decoded)>>
        ELSE <<>>)

\* ---------------------------------------------------- RPC / store behaviour
\* How the reads of one message handling behave.
RpcOk == [factory |-> TRUE, pair |-> "ok", liqOk |-> TRUE, priceOk |-> TRUE,
          reserves |-> <<100, 300000>>, liquidity |-> <<1000000, 0>>,
          mid |-> <<2, 1>>, quote |-> Some(3), block |-> Some(100),
          upsertOk |-> TRUE]

\* reserves: an opportunity; impact under the threshold; zero profit;
\* reserve under ten times the amount
ReserveCases == {<<100, 300000>>, <<400, 900000>>, <<100, 150000>>,
                 <<10, 300000>>}

\* The RPC behaviours a message handling is run under: the four reserve
\* cases, a V3 quote under the minimum, a failed block-number read and a
\* failed opportunity write
Rpcs ==
    {[RpcOk EXCEPT !.reserves = r] : r \in ReserveCases}
    \cup {[RpcOk EXCEPT !.quote = Some(1)], [RpcOk EXCEPT !.block = None],
          [RpcOk EXCEPT !.upsertOk = FALSE]}

\* ------------------------------------------------------------------- state
VARIABLES
    now,            \* Date.now(), ms
    tokens,         \* table tokens
    factories,      \* table factory_addresses
    pools,          \* table pools
    opps,           \* table opportunities
    cleanup,        \* the cleanup run in progress: [pc, now, ids]
    last,           \* what the consumer decided, when the step just taken
                    \* was a message handling
    tap,            \* the tap: [start, handlers of the pending hashes]
    bus,            \* the sends to the transactions topic, in call order
    kafkaProducer,  \* "unset", "null" (connect failed) or "ready"
    proc,           \* the evaluations under way: per evaluation its
                    \* position in the cache lookups and what it holds
    shutdown        \* the process and its signal handlers: [consumer,
                    \* registered, prisma, exited]

vars == <<now, tokens, factories, pools, opps, cleanup, last, tap, bus,
          kafkaProducer, proc, shutdown>>

\* ------------------------------------------------------- bus consumer
\* The swaps the tap can decode: <<transaction index, sub-action index>>
Swaps == {s \in (1..Len(Txs)) \X (1..3) : s[2] <= Len(Decoded(Txs[s[1]]))}

SwapEnvelope(s, blockNumber, timestamp) ==
    Envelope(Txs[s[1]].hash, Decoded(Txs[s[1]])[s[2]], Txs[s[1]].to,
             blockNumber, timestamp)

\* the swaps the consumer is handed: a V2 exact-input swap and the two
\* sub-actions of a universal-router call
ConsumerSwaps == {s \in Swaps : Txs[s[1]].hash \in {"hv2", "hur"}}

\* the swap whose messages come in every age
AgedSwaps == {s \in ConsumerSwaps : Txs[s[1]].hash = "hv2"}

\* Messages of the swaps S: the envelope's blockNumber, the age of the
\* envelope timestamp and of the broker timestamp (None: no timestamp);
\* parses: the value is JSON text
Forms(S, blockNumber, envelopeAge, brokerAge) ==
    {[swap |-> Some(s), blockNumber |-> blockNumber,
      envelopeAge |-> envelopeAge, brokerAge |-> brokerAge,
      parses |-> TRUE] : s \in S}

\* a message with no value
EmptyForm == [swap |-> None, blockNumber |-> None, envelopeAge |-> None,
              brokerAge |-> Some(0), parses |-> TRUE]

\* messages whose value JSON.parse rejects
GarbledForms == {[f EXCEPT !.parses = FALSE] :
                    f \in Forms(AgedSwaps, None, Some(0), Some(0))}

\* The messages the consumer is handed, each with the RPC behaviour of its
\* handling.  A message that is dropped before the evaluator consults no RPC.
Handlings ==
    (Forms(ConsumerSwaps, None, Some(0), Some(0)) \X Rpcs)
    \cup
    ((Forms(AgedSwaps, None, Some(MAX_MESSAGE_AGE_MS), Some(0))
      \cup Forms(AgedSwaps, None, None, Some(MAX_MESSAGE_AGE_MS)))
      \X {RpcOk, [RpcOk EXCEPT !.reserves = <<100, 150000>>]})
    \cup
    ((Forms(AgedSwaps, None, Some(MAX_MESSAGE_AGE_MS + 1), Some(0))
      \cup Forms(AgedSwaps, None, None, Some(MAX_MESSAGE_AGE_MS + 1))
      \cup Forms(AgedSwaps, Some(0), Some(0), Some(0))
      \cup Forms(AgedSwaps, Some(19000000), Some(0), Some(0))
      \cup Forms(AgedSwaps, None, None, None)
      \cup {EmptyForm}
      \cup GarbledForms)
      \X {RpcOk})

\* The Kafka message [value (None: empty), timestamp (the broker's)] of
\* form f at clock nowMs
ConsumerMessage(f, nowMs) ==
    [value |-> IF f.swap = None THEN None
               ELSE Some(SwapEnvelope(The(f.swap), f.blockNumber,
                             IF f.envelopeAge = None THEN None
                             ELSE Some(nowMs - The(f.envelopeAge)))),
     timestamp |-> IF f.brokerAge = None THEN None
                   ELSE Some(nowMs - The(f.brokerAge)),
     parses |-> f.parses]

\* messageTimestamp: the envelope's when truthy, else the broker's
MessageTimestamp(txMessage, message) ==
    IF txMessage.timestamp # None /\ The(txMessage.timestamp) # 0
    THEN txMessage.timestamp
    ELSE IF message.timestamp # None /\ The(message.timestamp) # 0
    THEN message.timestamp
    ELSE None

\* messageAge; None is Infinity
MessageAge(txMessage, message, startTime) ==
    LET messageTimestamp == MessageTimestamp(txMessage, message)
    IN  IF messageTimestamp = None THEN None
        ELSE Some(startTime - The(messageTimestamp))

\* the age gate with >= in place of >
TooOldInclusive(messageAge) ==
    messageAge = None \/ The(messageAge) >= MAX_MESSAGE_AGE_MS

\* messageAge > MAX_MESSAGE_AGE_MS
TooOld(messageAge) ==
    messageAge = None \/ The(messageAge) > MAX_MESSAGE_AGE_MS

\* the status with the isOpportunity test ahead of the isExpired test
OppStatusDetectedFirst(opportunity) ==
    IF opportunity.isOpportunity THEN "detected"
    ELSE IF opportunity.isExpired THEN "expired"
    ELSE "pending"

\* status of the row the upsert writes
OppStatus(opportunity) ==
    IF opportunity.isExpired THEN "expired"
    ELSE IF opportunity.isOpportunity THEN "detected"
    ELSE "pending"

\* x?.toLowerCase() || null for an optional address
LowerOrNull(a) ==
    IF a \in {Undefined, EmptyString} THEN None ELSE Some(toLowerCase(a))

\* The column values of the opportunity upsert (create and update agree)
OppRow(id, txHash, routerAddress, processedDecodedTx, opportunity, currentBlock, nowMs) ==
    [id |-> id, chainId |-> ChainId, txHash |-> txHash,
     routerAddress |-> routerAddress,
     routerType |-> processedDecodedTx.routerType,
     tokenIn |-> toLowerCase(processedDecodedTx.tokenIn),
     tokenOut |-> toLowerCase(processedDecodedTx.tokenOut),
     tokenInAmount |-> toString(processedDecodedTx.amountIn),
     tokenOutAmount |-> processedDecodedTx.amountOut,
     expectedProfit |-> opportunity.profitPotential,
     priceImpact |-> IF opportunity.priceImpact # None
                        /\ Truthy(The(opportunity.priceImpact))
                     THEN opportunity.priceImpact ELSE None,
     poolAddress |-> IF opportunity.poolAddress = None THEN None
                     ELSE Some(toLowerCase(The(opportunity.poolAddress))),
     fee |-> IF processedDecodedTx.fee = None THEN 0
             ELSE The(processedDecodedTx.fee),
     method |-> processedDecodedTx.method,
     recipient |-> LowerOrNull(processedDecodedTx.recipient),
     deadline |-> processedDecodedTx.deadline,
     blockNumber |-> toString(currentBlock),
     status |-> OppStatus(opportunity),
     processedAt |-> nowMs,
     metadata |-> [tokenInDecimals |-> opportunity.tokenInDecimals,
                   tokenOutDecimals |-> opportunity.tokenOutDecimals,
                   decodedTx |-> serializeDecodedTx(processedDecodedTx),
                   reason |-> opportunity.reason,
                   timeToSubmitSeconds |-> opportunity.timeToSubmitSeconds,
                   deadlineTimestamp |-> opportunity.deadlineTimestamp,
                   isExpired |-> opportunity.isExpired]]

OppIdx(oppTbl, chainId, txHash) ==
    FirstIdx(oppTbl, {r \in Rows(oppTbl) : r.chainId = chainId /\ r.txHash = txHash})

\* the id the table gives a new row: above every id in the table and
\* every id a running cleanup holds
NextOppId(oppTbl, held) ==
    CHOOSE i \in 1..(Len(oppTbl) + Cardinality(held) + 1) :
        /\ \A k \in 1..Len(oppTbl) : oppTbl[k].id # i
        /\ i \notin held
        /\ \A j \in 1..(i - 1) :
              j \in held \/ \E k \in 1..Len(oppTbl) : oppTbl[k].id = j

\* a write that always inserts
OppCreate(oppTbl, row) == Append(oppTbl, row)

\* an upsert that leaves an existing row as it is
OppUpsertKeepFirst(oppTbl, row) ==
    LET i == OppIdx(oppTbl, row.chainId, row.txHash)
    IN  IF i = 0 THEN Append(oppTbl, row) ELSE oppTbl

\* an upsert whose update marks the row it rewrites as expired
OppUpsertUpdateExpires(oppTbl, row) ==
    LET i == OppIdx(oppTbl, row.chainId, row.txHash)
    IN  IF i = 0 THEN Append(oppTbl, row)
        ELSE [oppTbl EXCEPT ![i] = [row EXCEPT !.id = oppTbl[i].id,
                                               !.metadata.isExpired = TRUE]]

\* prisma.opportunity.upsert on the unique key (chainId, txHash)
OppUpsert(oppTbl, row) ==
    LET i == OppIdx(oppTbl, row.chainId, row.txHash)
    IN  IF i = 0 THEN Append(oppTbl, row)
        ELSE [oppTbl EXCEPT ![i] = [row EXCEPT !.id = oppTbl[i].id]]

\* the envelope's decodedTx with amountIn converted back to a bigint
ProcessedDecodedTx(txMessage) ==
    [txMessage.decodedTx EXCEPT !.amountIn = BigInt(txMessage.decodedTx.amountIn)]

\* What eachMessage decided (outcome; verdict: None when the evaluator was
\* not run) and the tables it leaves
Handled(txHash, outcome, verdict, existed, tokenTbl, factoryTbl, poolTbl, oppTbl) ==
    [txHash |-> txHash, outcome |-> outcome, verdict |-> verdict,
     existed |-> existed, tokens |-> tokenTbl, factories |-> factoryTbl,
     pools |-> poolTbl, opps |-> oppTbl]

\* a handling whose failed upsert leaves its row behind
SaveOpportunityWriteThenFail(txMessage, processedDecodedTx, d, rpc, nowMs, oppTbl, held) ==
    IF rpc.block = None
    THEN Handled(Some(txMessage.txHash), "error", Some(d.verdict), FALSE,
                 d.tokens, d.factories, d.pools, oppTbl)
    ELSE IF ~d.verdict.isOpportunity
    THEN Handled(Some(txMessage.txHash), "skipped", Some(d.verdict), FALSE,
                 d.tokens, d.factories, d.pools, oppTbl)
    ELSE Handled(Some(txMessage.txHash),
                 IF rpc.upsertOk THEN "saved" ELSE "error",
                 Some(d.verdict),
                 OppIdx(oppTbl, ChainId, txMessage.txHash) # 0,
                 d.tokens, d.factories, d.pools,
                 OppUpsert(oppTbl,
                           OppRow(NextOppId(oppTbl, held), txMessage.txHash,
                                  txMessage.routerAddress,
                                  processedDecodedTx, d.verdict,
                                  The(rpc.block), nowMs)))

\* The part of eachMessage after detectOpportunity returned d
SaveOpportunity(txMessage, processedDecodedTx, d, rpc, nowMs, oppTbl, held) ==
    IF rpc.block = None
    THEN Handled(Some(txMessage.txHash), "error", Some(d.verdict), FALSE,
                 d.tokens, d.factories, d.pools, oppTbl)
    ELSE IF ~d.verdict.isOpportunity
    THEN Handled(Some(txMessage.txHash), "skipped", Some(d.verdict), FALSE,
                 d.tokens, d.factories, d.pools, oppTbl)
    ELSE IF ~rpc.upsertOk
    THEN Handled(Some(txMessage.txHash), "error", Some(d.verdict), FALSE,
                 d.tokens, d.factories, d.pools, oppTbl)
    ELSE Handled(Some(txMessage.txHash), "saved", Some(d.verdict),
                 OppIdx(oppTbl, ChainId, txMessage.txHash) # 0,
                 d.tokens, d.factories, d.pools,
                 OppUpsert(oppTbl,
                           OppRow(NextOppId(oppTbl, held), txMessage.txHash,
                                  txMessage.routerAddress,
                                  processedDecodedTx, d.verdict,
                                  The(rpc.block), nowMs)))

\* eachMessage run on one message, without interleaving
eachMessage(message, rpc, nowMs, tokenTbl, factoryTbl, poolTbl, oppTbl, held) ==
    IF message.value = None
    THEN Handled(None, "empty", None, FALSE, tokenTbl, factoryTbl, poolTbl,
                 oppTbl)
    ELSE IF ~message.parses
    THEN Handled(None, "error", None, FALSE, tokenTbl, factoryTbl, poolTbl,
                 oppTbl)
    ELSE
    The({IF TooOld(MessageAge(txMessage, message, nowMs))
         THEN Handled(Some(txMessage.txHash), "old", None, FALSE, tokenTbl,
                      factoryTbl, poolTbl, oppTbl)
         ELSE IF txMessage.blockNumber # None
         THEN Handled(Some(txMessage.txHash), "mined", None, FALSE, tokenTbl,
                      factoryTbl, poolTbl, oppTbl)
         ELSE The({SaveOpportunity(
                       txMessage, processedDecodedTx,
                       detectOpportunity(processedDecodedTx,
                                         txMessage.routerAddress, tokenTbl,
                                         factoryTbl, poolTbl, rpc, nowMs),
                       rpc, nowMs, oppTbl, held) :
                   processedDecodedTx \in {ProcessedDecodedTx(txMessage)}}) :
         txMessage \in message.value})

\* last when the step just taken was no message handling
NoneHandled == [txHash |-> None, envelopeTs |-> None, brokerTs |-> None,
                mined |-> FALSE, outcome |-> "none", verdict |-> None,
                existed |-> FALSE]

\* The tables after a message handling with result r
Consume(r) ==
    /\ Cardinality({r.opps[i].txHash : i \in DOMAIN r.opps}) <= MaxOpps
    /\ tokens' = r.tokens
    /\ factories' = r.factories
    /\ pools' = r.pools
    /\ opps' = r.opps
    /\ UNCHANGED <<shutdown, now, cleanup, tap, bus, kafkaProducer, proc>>

\* what an observer of the handling of message records
Observed(message, r) ==
    [txHash |-> r.txHash,
     envelopeTs |-> IF message.value = None \/ ~message.parses THEN None
                    ELSE The(message.value).timestamp,
     brokerTs |-> message.timestamp,
     mined |-> message.value # None /\ The(message.value).blockNumber # None,
     outcome |-> r.outcome, verdict |-> r.verdict, existed |-> r.existed]

\* The consumer handles one message
HandleMessage ==
    \E h \in Handlings :
    \E message \in {ConsumerMessage(h[1], now)} :
    \E r \in {eachMessage(message, h[2], now, tokens, factories, pools, opps,
                          cleanup.ids)} :
        /\ Consume(r)
        /\ last' = NoneHandled

\* The consumer handles one message and the handling is observed
HandleObserved ==
    \E h \in Handlings :
    \E message \in {ConsumerMessage(h[1], now)} :
    \E r \in {eachMessage(message, h[2], now, tokens, factories, pools, opps,
                          cleanup.ids)} :
        /\ Consume(r)
        /\ last' = Observed(message, r)

\* The consumer handles one message; the observer also records how the
\* handling before it ended
HandleNext ==
    \E h \in Handlings :
    \E message \in {ConsumerMessage(h[1], now)} :
    \E r \in {eachMessage(message, h[2], now, tokens, factories, pools, opps,
                          cleanup.ids)} :
        /\ Consume(r)
        /\ last' = [NoneHandled EXCEPT !.outcome = r.outcome]
                        @@ [after |-> last.outcome]

\* what an observer of a delivery records: the message and the RPC
\* behaviour of its handling, the clock of this handling (at) and of the
\* handling of the same message before it (prevAt)
Delivered(message, rpc, r, again, at, prevAt) ==
    [NoneHandled EXCEPT !.txHash = r.txHash, !.outcome = r.outcome]
        @@ [message |-> message, rpc |-> rpc, again |-> again, at |-> at,
            prevAt |-> prevAt]

\* The consumer handles one message, delivered for the first time
HandleFirst ==
    \E h \in Handlings :
    \E message \in {ConsumerMessage(h[1], now)} :
    \E r \in {eachMessage(message, h[2], now, tokens, factories, pools, opps,
                          cleanup.ids)} :
        /\ Consume(r)
        /\ last' = Delivered(message, h[2], r, FALSE, now, now)

\* The broker redelivers the message whose opportunity was just saved, and
\* the consumer handles it again under the same RPC behaviour
HandleAgain ==
    /\ last.outcome = "saved"
    /\ \E r \in {eachMessage(last.message, last.rpc, now, tokens, factories,
                             pools, opps, cleanup.ids)} :
          /\ Consume(r)
          /\ last' = Delivered(last.message, last.rpc, r, TRUE, now, last.at)

\* the clock advances between a delivery and its redelivery
Elapse ==
    /\ now < StartMs + MaxTicks * TickMs
    /\ now' = now + TickMs
    /\ UNCHANGED <<shutdown, tokens, factories, pools, opps, cleanup, last,
                   tap, bus, kafkaProducer, proc>>

\* ----------------------------------------------------------- cleanup task
CleanupIdle == [pc |-> "idle", now |-> None, ids |-> {}]

\* cleanupExpiredTxs, one database call per step
CleanupExpired ==
    /\ cleanup.pc = "idle"
    /\ opps' = DeleteWhere(opps, {r \in Rows(opps) : r.status = "expired"})
    /\ cleanup' = [pc |-> "pending", now |-> Some(now), ids |-> {}]
    /\ last' = NoneHandled
    /\ UNCHANGED <<shutdown, now, tokens, factories, pools, tap, bus, kafkaProducer,
                   proc>>

CleanupPending ==
    /\ cleanup.pc = "pending"
    /\ opps' = DeleteWhere(opps, {r \in Rows(opps) : r.status = "pending"})
    /\ cleanup' = [cleanup EXCEPT !.pc = "flagged"]
    /\ last' = NoneHandled
    /\ UNCHANGED <<shutdown, now, tokens, factories, pools, tap, bus, kafkaProducer,
                   proc>>

CleanupFlagged ==
    /\ cleanup.pc = "flagged"
    /\ opps' = DeleteWhere(opps, {r \in Rows(opps) : r.status = "detected"
                                            /\ r.metadata.isExpired})
    /\ cleanup' = [cleanup EXCEPT !.pc = "find"]
    /\ last' = NoneHandled
    /\ UNCHANGED <<shutdown, now, tokens, factories, pools, tap, bus, kafkaProducer,
                   proc>>

\* a cleanup that has no deadline pass
ExpiredByFlagOnly(oppTbl, nowMs) == {}

\* findMany of the detected rows and the in-memory deadline filter, which
\* compares deadlineTimestamp (seconds) with now (milliseconds)
ExpiredByDeadline(oppTbl, nowMs) ==
    {oppTbl[i].id : i \in {k \in DOMAIN oppTbl :
        /\ oppTbl[k].status = "detected"
        /\ oppTbl[k].metadata.deadlineTimestamp # None
        /\ The(oppTbl[k].metadata.deadlineTimestamp) # 0
        /\ The(oppTbl[k].metadata.deadlineTimestamp) < nowMs}}

CleanupFind ==
    /\ cleanup.pc = "find"
    /\ \E expiredByDeadline \in {ExpiredByDeadline(opps, The(cleanup.now))} :
          cleanup' = IF expiredByDeadline = {}
                     THEN CleanupIdle
                     ELSE [cleanup EXCEPT !.pc = "delete",
                                          !.ids = expiredByDeadline]
    /\ last' = NoneHandled
    /\ UNCHANGED <<shutdown, now, tokens, factories, pools, opps, tap, bus,
                   kafkaProducer, proc>>

CleanupDelete ==
    /\ cleanup.pc = "delete"
    /\ opps' = DeleteWhere(opps, {r \in Rows(opps) : r.id \in cleanup.ids})
    /\ cleanup' = CleanupIdle
    /\ last' = NoneHandled
    /\ UNCHANGED <<shutdown, now, tokens, factories, pools, tap, bus, kafkaProducer,
                   proc>>

\* cleanupExpiredTxs run without interleaving: the table it leaves
cleanupExpiredTxs(oppTbl, nowMs) ==
    LET afterExpired == DeleteWhere(oppTbl, {r \in Rows(oppTbl) : r.status = "expired"})
        afterPending == DeleteWhere(afterExpired,
                                    {r \in Rows(afterExpired) : r.status = "pending"})
        afterFlagged == DeleteWhere(afterPending,
                            {r \in Rows(afterPending) : r.status = "detected"
                                       /\ r.metadata.isExpired})
        expiredIds == ExpiredByDeadline(afterFlagged, nowMs)
    IN  DeleteWhere(afterFlagged, {r \in Rows(afterFlagged) : r.id \in expiredIds})

\* One whole run of the cleanup task
CleanupRun ==
    /\ cleanup.pc = "idle"
    /\ opps' = cleanupExpiredTxs(opps, now)
    /\ last' = NoneHandled
    /\ UNCHANGED <<shutdown, now, tokens, factories, pools, cleanup, tap, bus,
                   kafkaProducer, proc>>

\* what an observer of a cleanup run records: the rows it removed
Cleaned(before, after) ==
    [NoneHandled EXCEPT !.outcome = "cleanup"]
        @@ [removed |-> Rows(before) \ Rows(after)]

\* One whole run of the cleanup task, observed
CleanupObserved ==
    /\ cleanup.pc = "idle"
    /\ \E after \in {cleanupExpiredTxs(opps, now)} :
          /\ opps' = after
          /\ last' = Cleaned(opps, after)
    /\ UNCHANGED <<shutdown, now, tokens, factories, pools, cleanup, tap, bus,
                   kafkaProducer, proc>>

\* ------------------------------------------------- the cleanup schedule
\* Once startCleanupTask ran, cleanup holds the interval timer: pc "armed",
\* started (Date.now() at the call), due (when the timer fires next), runs
\* (cleanupExpiredTxs calls so far) and lastFailed (the last run whose
\* database call threw, 0 when none did).

\* the cleanup record after a run made by the interval timer that failed
\* stopped the timer
AfterIntervalRunStopped(c, ok) ==
    IF ok THEN [c EXCEPT !.runs = @ + 1, !.due = @ + HOUR_IN_MS]
    ELSE [c EXCEPT !.runs = @ + 1, !.lastFailed = c.runs + 1,
                   !.pc = "stopped"]

\* the cleanup record after a run made by the interval timer: the run's
\* error, if any, is caught and logged, and the timer stays armed
AfterIntervalRun(c, ok) ==
    [c EXCEPT !.runs = @ + 1, !.due = @ + HOUR_IN_MS,
              !.lastFailed = IF ok THEN @ ELSE c.runs + 1]

\* startCleanupTask: the run at startup, which succeeds or fails on its
\* first database call, and the arming of the hourly timer
StartCleanupTask ==
    /\ cleanup.pc = "idle"
    /\ \E ok \in BOOLEAN :
          /\ opps' = IF ok THEN cleanupExpiredTxs(opps, now) ELSE opps
          /\ cleanup' = [pc |-> "armed", started |-> now,
                          due |-> now + HOUR_IN_MS, runs |-> 1,
                          lastFailed |-> IF ok THEN 0 ELSE 1] @@ CleanupIdle
    /\ last' = NoneHandled
    /\ UNCHANGED <<shutdown, now, tokens, factories, pools, tap, bus,
                   kafkaProducer, proc>>

\* the interval timer fires: one more run, which succeeds or fails
IntervalFires ==
    /\ cleanup.pc = "armed"
    /\ now >= cleanup.due
    /\ \E ok \in BOOLEAN :
          /\ opps' = IF ok THEN cleanupExpiredTxs(opps, now) ELSE opps
          /\ cleanup' = AfterIntervalRun(cleanup, ok)
    /\ last' = NoneHandled
    /\ UNCHANGED <<shutdown, now, tokens, factories, pools, tap, bus,
                   kafkaProducer, proc>>

\* an hour passes; a timer that is due fires before the next hour does
Hour ==
    /\ now < StartMs + MaxHours * HOUR_IN_MS
    /\ cleanup.pc = "armed" => now < cleanup.due
    /\ now' = now + HOUR_IN_MS
    /\ last' = NoneHandled
    /\ UNCHANGED <<shutdown, tokens, factories, pools, opps, cleanup, tap,
                   bus, kafkaProducer, proc>>

\* ------------------------------------------------------------------ clock
Tick ==
    /\ now < StartMs + MaxTicks * TickMs
    /\ now' = now + TickMs
    /\ last' = NoneHandled
    /\ UNCHANGED <<shutdown, tokens, factories, pools, opps, cleanup, tap, bus,
                   kafkaProducer, proc>>

\* ------------------------------------------------------------ mempool tap
\* tap: [start: listeningStartTime (None before listenMempool ran),
\*       handlers: one record per 'pending' event, with the retries of its
\*       getTransaction loop, the class of the last failed attempt (error)
\*       and the wait before the next attempt in ms (delay)]
\* kafkaProducer: "unset" before initializeKafkaProducer, then "ready", or
\*       "null" when createProducer failed
\* bus: the kafkaProducer.send calls in call order, each with its state
\*       "inflight", "acked" (the message is on the topic) or "failed"
TapIdle == [start |-> None, handlers |-> <<>>]

\* tx.blockNumber of the hydrated transaction: null, or a block number
BlockNumbers == {None, Some(0), Some(19000000)}

\* listenMempool up to the registration of the 'pending' handler
TapStart ==
    /\ kafkaProducer = "unset"
    /\ \E p \in {"ready", "null"} : kafkaProducer' = p
    /\ tap' = [tap EXCEPT !.start = Some(now)]
    /\ UNCHANGED <<shutdown, now, tokens, factories, pools, opps, cleanup, last, bus,
                   proc>>

\* the transactions whose hashes the provider announces: one per route
\* (V2, V3, universal with and without recognized commands, undecodable)
TapTxs == {t \in DOMAIN Txs :
              Txs[t].hash \in {"hv2", "hv3", "hur", "hurx", "hbad"}}

\* The provider announces pending hash Txs[t].hash.  Each hash is announced
\* once; handlers are independent, so they are numbered in the order of Txs.
Pending(t) ==
    /\ tap.start # None
    /\ Len(tap.handlers) < MaxPending
    /\ \A i \in DOMAIN tap.handlers : tap.handlers[i].tx < t
    /\ tap' = [tap EXCEPT !.handlers =
                  Append(@, [tx |-> t, pc |-> "fetch", retries |-> 0,
                             fetched |-> None, todo |-> <<>>,
                             outcome |-> "none", error |-> "none",
                             delay |-> 0])]
    /\ UNCHANGED <<shutdown, now, tokens, factories, pools, opps, cleanup, last, bus,
                   kafkaProducer, proc>>

\* a handler that returned
TapDone(h, outcome) == [h EXCEPT !.pc = "done", !.outcome = outcome,
                                 !.todo = <<>>, !.retries = 0,
                                 !.error = "none", !.delay = 0]

\* The handler from the hydrated transaction (blockNumber b) to its first
\* kafkaProducer.send: the mined gate, the start-up gate, the routing; with
\* no producer every sendToKafka returns at once
AfterFetch(h, b, nowMs, listeningStartTime, producer) ==
    IF b # None /\ The(b) # 0
    THEN TapDone([h EXCEPT !.fetched = Some(b)], "mined")
    ELSE IF nowMs - listeningStartTime < 1000
    THEN TapDone([h EXCEPT !.fetched = Some(b)], "early")
    ELSE IF producer = "null" \/ Decoded(Txs[h.tx]) = <<>>
    THEN TapDone([h EXCEPT !.fetched = Some(b)], "routed")
    ELSE [h EXCEPT !.fetched = Some(b), !.pc = "send",
                   !.todo = Decoded(Txs[h.tx])]

\* One attempt of getTransaction failed with any error and the loop went on
\* to wait and retry while attempts were left.
AfterFetchErrorRetryAll(h, isTimeout) ==
    LET error == IF isTimeout THEN "timeout" ELSE "other"
    IN  IF h.retries + 1 >= maxRetries
        THEN [TapDone(h, "gaveup") EXCEPT !.error = error]
        ELSE [h EXCEPT !.retries = @ + 1, !.error = error,
                       !.delay = retryDelay * (2 ^ h.retries)]

\* One attempt of getTransaction failed with a timeout (isTimeout) or with
\* another error; error is the class of the failure and delay the wait
\* before the next attempt
AfterFetchError(h, isTimeout) ==
    LET error == IF isTimeout THEN "timeout" ELSE "other"
    IN  IF h.retries + 1 >= maxRetries
        THEN [TapDone(h, "gaveup") EXCEPT !.error = error]
        ELSE IF isTimeout
        THEN [h EXCEPT !.retries = @ + 1, !.error = error,
                       !.delay = retryDelay * (2 ^ h.retries)]
        ELSE [TapDone(h, "failed") EXCEPT !.error = error]

\* One attempt of the retry loop of handler i and, when it succeeds, the
\* handler up to its first send
Hydrate(i) ==
    /\ i \in DOMAIN tap.handlers
    /\ tap.handlers[i].pc = "fetch"
    /\ \/ \E b \in BlockNumbers :
             tap' = [tap EXCEPT !.handlers[i] =
                        AfterFetch(@, b, now, The(tap.start), kafkaProducer)]
       \/ tap' = [tap EXCEPT !.handlers[i] = TapDone(@, "notfound")]
       \/ \E isTimeout \in BOOLEAN :
             tap' = [tap EXCEPT !.handlers[i] = AfterFetchError(@, isTimeout)]
    /\ UNCHANGED <<shutdown, now, tokens, factories, pools, opps, cleanup, last, bus,
                   kafkaProducer, proc>>

\* sendToKafka of handler i up to the await of kafkaProducer.send
SendStart(i) ==
    /\ i \in DOMAIN tap.handlers
    /\ tap.handlers[i].pc = "send"
    /\ bus' = Append(bus,
                 [key |-> Txs[tap.handlers[i].tx].hash,
                  value |-> Envelope(Txs[tap.handlers[i].tx].hash,
                                     Head(tap.handlers[i].todo),
                                     Txs[tap.handlers[i].tx].to, None,
                                     Some(now)),
                  timestamp |-> Some(now), state |-> "inflight"])
    /\ tap' = [tap EXCEPT !.handlers[i].pc = "await"]
    /\ UNCHANGED <<shutdown, now, tokens, factories, pools, opps, cleanup, last,
                   kafkaProducer, proc>>

\* a handler that returns after its first sendToKafka
AfterFirstSendOnly(h) == TapDone(h, "routed")

\* The handler after one sendToKafka returned: the next decoded swap, or
\* the end of the routing
AfterSend(h) ==
    IF Len(h.todo) = 1 THEN TapDone(h, "routed")
    ELSE [h EXCEPT !.todo = Tail(h.todo), !.pc = "send"]

\* kafkaProducer.send of handler i resolves or rejects (the rejection is
\* logged) and the handler goes on to the next decoded swap
SendDone(i) ==
    /\ i \in DOMAIN tap.handlers
    /\ tap.handlers[i].pc = "await"
    /\ \E k \in DOMAIN bus :
          /\ bus[k].key = Txs[tap.handlers[i].tx].hash
          /\ bus[k].state = "inflight"
          /\ \E ok \in BOOLEAN :
                bus' = [bus EXCEPT ![k].state = IF ok THEN "acked"
                                                ELSE "failed"]
    /\ tap' = [tap EXCEPT !.handlers[i] = AfterSend(@)]
    /\ UNCHANGED <<shutdown, now, tokens, factories, pools, opps, cleanup, last,
                   kafkaProducer, proc>>

\* sendToKafka of the decoded swaps todo of transaction tx, one after the
\* other; oks[k]: the broker accepted send k
SendAll(tx, todo, nowMs, oks) ==
    [k \in 1..Len(todo) |->
        [key |-> tx.hash,
         value |-> Envelope(tx.hash, todo[k], tx.to, None, Some(nowMs)),
         timestamp |-> Some(nowMs),
         state |-> IF oks[k] THEN "acked" ELSE "failed"]]

\* The whole 'pending' handler of hash Txs[t].hash, run with no other
\* handler interleaved: the hydration (found with blockNumber b, not found,
\* or failed), the gates, the routing and every send
HandlePending(t) ==
    /\ tap.start # None
    /\ Len(tap.handlers) < MaxPending
    /\ \A i \in DOMAIN tap.handlers : tap.handlers[i].tx < t
    /\ \E h \in {[tx |-> t, pc |-> "fetch", retries |-> 0, fetched |-> None,
                   todo |-> <<>>, outcome |-> "none", error |-> "none",
                   delay |-> 0]} :
          \/ \E b \in BlockNumbers :
             \E fetched \in {AfterFetch(h, b, now, The(tap.start),
                                        kafkaProducer)} :
             \E oks \in [1..Len(fetched.todo) -> BOOLEAN] :
                /\ bus' = bus \o SendAll(Txs[t], fetched.todo, now, oks)
                /\ tap' = [tap EXCEPT !.handlers =
                              Append(@, TapDone(fetched,
                                  IF fetched.pc = "done"
                                  THEN fetched.outcome ELSE "routed"))]
          \/ \E outcome \in {"notfound", "gaveup", "failed"} :
                /\ bus' = bus
                /\ tap' = [tap EXCEPT !.handlers =
                              Append(@, TapDone(h, outcome))]
    /\ UNCHANGED <<shutdown, now, tokens, factories, pools, opps, cleanup, last,
                   kafkaProducer, proc>>

\* --------------------------------------------------- process shutdown
\* consumer: "none" before createConsumer, then "connected",
\*       "disconnecting" (disconnectConsumer awaited), "disconnected"
\* registered: startKafkaConsumer has registered its signal handlers
\* prisma: "connected", "disconnecting" ($disconnect awaited),
\*       "disconnected" or "failed" ($disconnect rejected)
\* exited: process.exit was called
Running == [consumer |-> "none", registered |-> FALSE,
            prisma |-> "connected", exited |-> FALSE]

\* startKafkaConsumer up to the end of createConsumer
ConsumerCreate ==
    /\ ~shutdown.exited
    /\ shutdown.consumer = "none"
    /\ shutdown' = [shutdown EXCEPT !.consumer = "connected"]
    /\ UNCHANGED <<now, tokens, factories, pools, opps, cleanup, last, tap,
                   bus, kafkaProducer, proc>>

\* startKafkaConsumer after processTransactionMessages resolved: its
\* shutdown handler is registered for SIGINT and SIGTERM
ConsumerRegister ==
    /\ ~shutdown.exited
    /\ shutdown.consumer = "connected"
    /\ ~shutdown.registered
    /\ shutdown' = [shutdown EXCEPT !.registered = TRUE]
    /\ UNCHANGED <<now, tokens, factories, pools, opps, cleanup, last, tap,
                   bus, kafkaProducer, proc>>

\* SIGINT or SIGTERM: every registered listener is called, each up to its
\* first await (index.ts: prisma.$disconnect; startKafkaConsumer:
\* disconnectConsumer)
Signal ==
    /\ ~shutdown.exited
    /\ shutdown.prisma = "connected"
    /\ shutdown' = [shutdown EXCEPT
          !.prisma = "disconnecting",
          !.consumer = IF shutdown.registered THEN "disconnecting" ELSE @]
    /\ UNCHANGED <<now, tokens, factories, pools, opps, cleanup, last, tap,
                   bus, kafkaProducer, proc>>

\* index.ts shutdown after prisma.$disconnect settled: process.exit(0)
PrismaDisconnected ==
    /\ ~shutdown.exited
    /\ shutdown.prisma = "disconnecting"
    /\ \E ok \in BOOLEAN :
          shutdown' = [shutdown EXCEPT
              !.prisma = IF ok THEN "disconnected" ELSE "failed",
              !.exited = TRUE]
    /\ UNCHANGED <<now, tokens, factories, pools, opps, cleanup, last, tap,
                   bus, kafkaProducer, proc>>

\* startKafkaConsumer's shutdown after disconnectConsumer resolved:
\* process.exit(0)
ConsumerDisconnected ==
    /\ ~shutdown.exited
    /\ shutdown.consumer = "disconnecting"
    /\ shutdown' = [shutdown EXCEPT !.consumer = "disconnected",
                                    !.exited = TRUE]
    /\ UNCHANGED <<now, tokens, factories, pools, opps, cleanup, last, tap,
                   bus, kafkaProducer, proc>>

\* the tap while the process runs
TapRunning ==
    /\ ~shutdown.exited
    /\ \/ TapStart
       \/ \E t \in TapTxs : HandlePending(t)

\* ------------------------------------------- concurrent cache lookups
\* The cache lookups of detectOpportunity, one database or RPC call a step,
\* for evaluations that run concurrently (every RPC read succeeds).
\* proc[i]: [c: the call, pc, k: the token being looked up (1 tokenIn,
\*   2 tokenOut), factoryAddress, asked: the factory's getPair / getPool
\*   answer, kind: "running", "ok" (value = what getPools returned, None is
\*   null), "notoken" or "throw" (error: "unique" is the store's
\*   unique-constraint error, "rpc" a failed contract call)]

\* the swaps evaluated: direct V2 and V3 calls, a V3 call of another fee
\* tier, and the two sub-actions of a universal-router call
CacheSwaps == {s \in Swaps : Txs[s[1]].hash \in {"hv2", "hv3", "hv3b", "hur"}}

\* what detectOpportunity hands getToken and getPools for swap s
CacheCall(s) ==
    [swap |-> s,
     tokenIn |-> Decoded(Txs[s[1]])[s[2]].tokenIn,
     tokenOut |-> Decoded(Txs[s[1]])[s[2]].tokenOut,
     router |-> ActualRouterAddress(Decoded(Txs[s[1]])[s[2]], Txs[s[1]].to),
     routerType |-> Decoded(Txs[s[1]])[s[2]].routerType,
     fee |-> Decoded(Txs[s[1]])[s[2]].fee]

\* An evaluation starts.  Evaluations are independent, so they are numbered
\* in the order of their swaps.
StartEvaluation(s) ==
    /\ Len(proc) < MaxProcs
    /\ \A i \in DOMAIN proc :
          proc[i].c.swap[1] < s[1]
          \/ (proc[i].c.swap[1] = s[1] /\ proc[i].c.swap[2] <= s[2])
    /\ proc' = Append(proc, [c |-> CacheCall(s), pc |-> "token", k |-> 1,
                             factoryAddress |-> None, asked |-> None,
                             kind |-> "running", value |-> None,
                             error |-> "none"])
    /\ UNCHANGED <<shutdown, now, tokens, factories, pools, opps, cleanup, last, tap,
                   bus, kafkaProducer>>

\* the token evaluation p is looking up
TokenOf(p) == IF p.k = 1 THEN p.c.tokenIn ELSE p.c.tokenOut

\* evaluation p after the lookup of its token k
AfterToken(p) ==
    IF p.k = 1 THEN [p EXCEPT !.k = 2, !.pc = "token"]
    ELSE [p EXCEPT !.pc = "factory"]

\* an evaluation that returned or threw
CacheDone(p, kind, value, error) ==
    [p EXCEPT !.pc = "done", !.kind = kind, !.value = value,
              !.error = error]

\* getToken up to its database read
TokenFind(i) ==
    /\ i \in DOMAIN proc
    /\ proc[i].pc = "token"
    /\ proc' = [proc EXCEPT ![i] =
          IF ~isAddress(TokenOf(@))
          THEN CacheDone(@, "notoken", None, "none")
          ELSE IF getTokenFromDb(tokens, TokenOf(@)) # None
          THEN AfterToken(@)
          ELSE [@ EXCEPT !.pc = "tokenSave"]]
    /\ UNCHANGED <<shutdown, now, tokens, factories, pools, opps, cleanup, last, tap,
                   bus, kafkaProducer>>

\* getToken after a miss: the chain read and the upsert
TokenSave(i) ==
    /\ i \in DOMAIN proc
    /\ proc[i].pc = "tokenSave"
    /\ tokens' = addTokenToDb(tokens,
                              The(fetchTokenFromChain(TokenOf(proc[i]))))
    /\ proc' = [proc EXCEPT ![i] = AfterToken(@)]
    /\ UNCHANGED <<shutdown, now, factories, pools, opps, cleanup, last, tap, bus,
                   kafkaProducer>>

\* getFactoryAddress up to its findUnique
FactoryFind(i) ==
    /\ i \in DOMAIN proc
    /\ proc[i].pc = "factory"
    /\ \E factory \in {FactoryFindUnique(factories, proc[i].c.router)} :
          proc' = [proc EXCEPT ![i] =
              IF factory # None
              THEN [@ EXCEPT !.pc = "pair",
                             !.factoryAddress =
                                 Some(The(factory).factoryAddress)]
              ELSE IF ~ChainHasFactory(@.c.router)
              THEN CacheDone(@, "throw", None, "rpc")
              ELSE [@ EXCEPT !.pc = "factoryCreate"]]
    /\ UNCHANGED <<shutdown, now, tokens, factories, pools, opps, cleanup, last, tap,
                   bus, kafkaProducer>>

\* getFactoryAddress after a miss: the router reads and the create
FactoryInsert(i) ==
    /\ i \in DOMAIN proc
    /\ proc[i].pc = "factoryCreate"
    /\ \E ins \in {FactoryCreate(factories,
                                 FactoryRow(proc[i].c.router,
                                            proc[i].c.routerType))} :
          /\ factories' = ins.tbl
          /\ proc' = [proc EXCEPT ![i] =
                IF ins.ok
                THEN [@ EXCEPT !.pc = "pair",
                               !.factoryAddress =
                                   Some(ChainFactory(proc[i].c.router))]
                ELSE CacheDone(@, "throw", None, "unique")]
    /\ UNCHANGED <<shutdown, now, tokens, pools, opps, cleanup, last, tap, bus,
                   kafkaProducer>>

\* getPools: the factory's getPair / getPool read
PairRead(i) ==
    /\ i \in DOMAIN proc
    /\ proc[i].pc = "pair"
    /\ proc' = [proc EXCEPT ![i] =
          IF @.c.routerType = "v3" /\ @.c.fee = None
          THEN CacheDone(@, "throw", None, "rpc")
          ELSE [@ EXCEPT !.pc = "poolByAddress",
                         !.asked =
                             Some(ChainGetPair(The(proc[i].factoryAddress),
                                      toLowerCase(proc[i].c.tokenIn),
                                      toLowerCase(proc[i].c.tokenOut),
                                      proc[i].c.routerType,
                                      proc[i].c.fee))]]
    /\ UNCHANGED <<shutdown, now, tokens, factories, pools, opps, cleanup, last, tap,
                   bus, kafkaProducer>>

\* getPools after findExistingPool found existingPool
ReturnExisting(p, existingPool) ==
    IF ~isValidPoolAddress(existingPool.poolAddress)
    THEN CacheDone(p, "ok", None, "none")
    ELSE CacheDone(p, "ok", Some(existingPool), "none")

\* findExistingPool: the lookup by pool address
PoolFindByAddress(i) ==
    /\ i \in DOMAIN proc
    /\ proc[i].pc = "poolByAddress"
    /\ \E poolByAddress \in {findPoolByAddress(pools, proc[i].asked)} :
          proc' = [proc EXCEPT ![i] =
              IF poolByAddress # None
              THEN ReturnExisting(@, The(poolByAddress))
              ELSE [@ EXCEPT !.pc = "poolByTokens"]]
    /\ UNCHANGED <<shutdown, now, tokens, factories, pools, opps, cleanup, last, tap,
                   bus, kafkaProducer>>

\* findExistingPool: the fallback lookup by token pair and router type,
\* and getPools up to its upsert
PoolFindByTokens(i) ==
    /\ i \in DOMAIN proc
    /\ proc[i].pc = "poolByTokens"
    /\ \E poolByTokens \in {findPoolByTokens(pools,
                                toLowerCase(proc[i].c.tokenIn),
                                toLowerCase(proc[i].c.tokenOut),
                                proc[i].c.routerType)} :
          proc' = [proc EXCEPT ![i] =
              IF poolByTokens # None
              THEN ReturnExisting(@, The(poolByTokens))
              ELSE IF ~isValidPoolAddress(The(@.asked))
              THEN CacheDone(@, "ok", None, "none")
              ELSE [@ EXCEPT !.pc = "poolSave"]]
    /\ UNCHANGED <<shutdown, now, tokens, factories, pools, opps, cleanup, last, tap,
                   bus, kafkaProducer>>

\* getPools: the pool upsert
PoolSave(i) ==
    /\ i \in DOMAIN proc
    /\ proc[i].pc = "poolSave"
    /\ \E saved \in {PoolUpsert(pools, The(proc[i].asked),
                                toLowerCase(proc[i].c.tokenIn),
                                toLowerCase(proc[i].c.tokenOut),
                                proc[i].c.routerType, proc[i].c.fee)} :
          /\ pools' = saved
          /\ proc' = [proc EXCEPT ![i] =
                CacheDone(@, "ok", findPoolByAddress(saved, @.asked),
                          "none")]
    /\ UNCHANGED <<shutdown, now, tokens, factories, opps, cleanup, last, tap, bus,
                   kafkaProducer>>

\* ------------------------------------------------- the evaluator, run alone
\* the amounts (amountIn, amountInMax) of the router calls that are evaluated
EvalAmounts == {0, 10, 50, 51}

\* The decoded swaps that are evaluated: what the decoders return for V2 and
\* V3 router calls, exact-input and exact-output.  For the V2 exact-input
\* call every amount is combined with every minimum output, and the
\* deadline and the direction of the pair vary.
EvalSwaps ==
    LET V2(name, a0, a1, path, deadline) ==
            [hash |-> "he", to |-> Cs("rv2"), value |-> 0,
             data |-> [abi |-> "v2", name |-> name, a0 |-> a0, a1 |-> a1,
                       path |-> path, to |-> Cs("u1"), deadline |-> deadline]]
        V3(name, a0, a1, deadline) ==
            [hash |-> "he", to |-> Cs("rv3"), value |-> 0,
             data |-> [abi |-> "v3", name |-> name, tokenIn |-> Cs("ta"),
                       tokenOut |-> Cs("tb"), fee |-> 500,
                       recipient |-> Cs("u1"), deadline |-> deadline,
                       a0 |-> a0, a1 |-> a1]]
        forward == <<Cs("ta"), Cs("tb")>>
        v2 == {V2("swapExactTokensForTokens", a[1], a[2], forward, 1301) :
                  a \in EvalAmounts \X {0, 1, 2, 14}}
              \cup {V2("swapExactTokensForTokens", 10, 1, forward, deadline) :
                       deadline \in {0, 1000, 1200}}
              \cup {V2("swapExactTokensForTokens", 51, 1,
                       <<Cs("tb"), Cs("ta")>>, 1301)}
              \cup {V2("swapTokensForExactTokens", 1, amountInMax, forward,
                       1301) : amountInMax \in EvalAmounts}
        v3 == {V3("exactInputSingle", a[1], a[2], 1301) :
                  a \in {<<0, 1>>, <<10, 1>>, <<10, 3>>}}
              \cup {V3("exactInputSingle", 10, 1, deadline) :
                       deadline \in {0, 1000}}
              \cup {V3("exactOutputSingle", 3, amountInMaximum, 1301) :
                       amountInMaximum \in {0, 10}}
    IN  UNION {Rows(Decoded(tx)) : tx \in v2}
        \cup UNION {Rows(Decoded(tx)) : tx \in v3}

\* The evaluations: each swap with the RPC behaviour of its evaluation.
\* Every swap is evaluated on a pair with reserves <<100, 30000>>; the swaps
\* of plain shape also with a failed liquidity read and a failed price
\* read, the V2 ones under two other reserve cases (the reserve of token ta
\* is 10 and 0.2 times the largest amount), the V3 ones with a quote under
\* the minimum, and one of each family with a getPair / getPool call that
\* times out
EvalCases ==
    LET rpc == [RpcOk EXCEPT !.reserves = <<100, 30000>>]
        plain == {s \in EvalSwaps :
                     /\ s.deadline = Some(1301)
                     /\ s.tokenIn[1] = "ta"
                     /\ s.amountIn + The(s.amountInMax) > 0
                     /\ \/ s.amountOutMin = Some(1)
                        \/ s.method = "swapTokensForExactTokens"}
        plainV2 == {s \in plain : s.routerType = "v2"}
    IN  (EvalSwaps \X {rpc})
        \cup (plain \X {[rpc EXCEPT !.liqOk = FALSE],
                        [rpc EXCEPT !.priceOk = FALSE]})
        \cup (plainV2 \X {[rpc EXCEPT !.reserves = <<510, 30000>>],
                          [rpc EXCEPT !.reserves = <<10, 30000>>]})
        \cup ((plain \ plainV2) \X {[rpc EXCEPT !.quote = Some(1)]})
        \cup ({s \in plain : s.amountIn = 10}
              \X {[rpc EXCEPT !.pair = "timeout"]})

\* detectOpportunity is run on one decoded swap.  The observer records the
\* swap, the RPC behaviour, whether the pool table held a row for the
\* swap's tokens, router type and fee before the call (stored), the
\* factory's answer (asked), the pool used and the verdict.
Evaluate ==
    /\ \E c \in EvalCases :
       \E decodedTx \in {c[1]}, rpc \in {c[2]} :
       \E d \in {detectOpportunity(decodedTx, decodedTx.router, tokens,
                                   factories, pools, rpc, now)} :
          /\ tokens' = d.tokens
          /\ factories' = d.factories
          /\ pools' = d.pools
          /\ last' = [NoneHandled EXCEPT !.outcome = "evaluated",
                                         !.verdict = Some(d.verdict)]
                         @@ [decodedTx |-> decodedTx, rpc |-> rpc,
                             stored |-> \E r \in Rows(pools) :
                                 /\ r.token0 = toLowerCase(decodedTx.tokenIn)
                                 /\ r.token1 = toLowerCase(decodedTx.tokenOut)
                                 /\ r.routerType = decodedTx.routerType
                                 /\ Some(r.fee) = decodedTx.fee,
                             asked |-> d.asked,
                             pool |-> d.pool]
    /\ UNCHANGED <<shutdown, now, opps, cleanup, tap, bus, kafkaProducer,
                   proc>>

\* getV2PriceImpact is run on a pair with reserves <<reserve0, reserve1>>
Quote ==
    /\ \E amountIn \in EvalAmounts \cup {1, 2},
          reserves \in {<<100, 3000>>, <<1000, 20000>>, <<3, 7>>, <<100, 0>>,
                        <<1, 1>>},
          tokenIn \in {Cs("ta"), Cs("tb")} :
          last' = [NoneHandled EXCEPT !.outcome = "quoted"]
                      @@ [amountIn |-> amountIn, reserves |-> reserves,
                          tokenIn |-> tokenIn,
                          impact |-> getV2PriceImpact(Cs("p2"), tokenIn,
                                                      amountIn, reserves)]
    /\ UNCHANGED <<shutdown, now, tokens, factories, pools, opps, cleanup,
                   tap, bus, kafkaProducer, proc>>

\* --------------------------------------- the evaluator behind every router
\* --------------------------------- the universal-router decoder, call by call
\* The execute() calls decoded: one swap command each, with an input tuple
\* of the command's shape, (recipient, x1, x2, path, payerIsUser); V2 paths
\* of two and of three addresses, V3 paths of one and of two hops
UniversalTxs ==
    LET UniversalAmounts == {0, 7, 30}
        v2paths == {<<Cs("ta"), Cs("tb")>>, <<Cs("ta"), Cs("w"), Cs("tb")>>,
                    <<Cs("tb"), Cs("ta"), Cs("w")>>}
        v3paths == {[tokens |-> <<Cs("ta"), Cs("tb")>>, fees |-> <<500>>],
                    [tokens |-> <<Cs("ta"), Cs("w"), Cs("tb")>>,
                     fees |-> <<500, 3000>>]}
        v2 == {[shape |-> "v2", recipient |-> Cs("u1"), x1 |-> a[1],
                x2 |-> a[2], path |-> p, payerIsUser |-> TRUE] :
                  a \in UniversalAmounts \X UniversalAmounts, p \in v2paths}
        v3 == {[shape |-> "v3", recipient |-> Cs("u1"), x1 |-> a[1],
                x2 |-> a[2], path |-> p, payerIsUser |-> TRUE] :
                  a \in UniversalAmounts \X UniversalAmounts, p \in v3paths}
    IN  {[hash |-> "hud", to |-> Cs("ru"), value |-> 0,
          data |-> [abi |-> "ur", commands |-> <<c[1]>>, inputs |-> <<c[2]>>,
                    deadline |-> 1300]] :
            c \in ({8, 9} \X v2) \cup ({0, 1} \X v3)}

\* decodeUniversalRouterFull is called on one transaction
DecodeUniversal ==
    /\ \E tx \in UniversalTxs :
          last' = [NoneHandled EXCEPT !.outcome = "decoded"]
                      @@ [tx |-> tx, actions |-> decodeUniversalRouterFull(tx)]
    /\ UNCHANGED <<shutdown, now, tokens, factories, pools, opps, cleanup,
                   tap, bus, kafkaProducer, proc>>

\* ------------------------- the sub-actions of one universal-router call
\* A universal-router transaction of three swaps: V3_EXACT_IN of 10 for at
\* least 1, V2_EXACT_IN of 2, and V3_EXACT_IN of 10 for at least 2
SubActionsTx ==
    [hash |-> "hus", to |-> Cs("ru"), value |-> 0,
     data |-> [abi |-> "ur", commands |-> <<0, 8, 0>>,
               inputs |-> <<V3In, V2In, [V3In EXCEPT !.x2 = 2]>>,
               deadline |-> 1300]]

\* the message the tap sends for sub-action k, received at clock nowMs
SubActionMessage(k, nowMs) ==
    [value |-> Some(Envelope(SubActionsTx.hash, Decoded(SubActionsTx)[k],
                             SubActionsTx.to, None, Some(nowMs))),
     timestamp |-> Some(nowMs), parses |-> TRUE]

\* The consumer handles the message of one sub-action
HandleSubAction ==
    \E k \in DOMAIN Decoded(SubActionsTx), rpc \in Rpcs :
    \E message \in {SubActionMessage(k, now)} :
    \E r \in {eachMessage(message, rpc, now, tokens, factories, pools, opps,
                          cleanup.ids)} :
        /\ Consume(r)
        /\ last' = [verdict |-> r.verdict]
                       @@ Delivered(message, rpc, r, FALSE, now, now)

\* ------------------------------------------------ getPools, call after call
\* The lookups: both orders of the pair, a V2 and the V3 router, three fee
\* tiers (the factory has a pool for 500 and for 10000, none for 3000), a
\* factory that answers and one whose getPair / getPool call times out
PoolsFees == {Some(500), Some(3000), Some(10000)}

PoolsCalls ==
    LET pairs == {<<Cs("ta"), Cs("tb")>>, <<Cs("tb"), Cs("ta")>>}
        rpcs == {RpcOk, [RpcOk EXCEPT !.pair = "timeout"]}
    IN  (pairs \X {<<Cs("rv2"), "v2">>} \X {None} \X rpcs)
        \cup (pairs \X {<<Cs("rv3"), "v3">>} \X PoolsFees \X rpcs)

GetPoolsCall ==
    /\ \E c \in PoolsCalls :
       \E g \in {getPools(factories, pools, c[1][1], c[1][2], c[2][1], c[2][2],
                          c[3], c[4])} :
          /\ factories' = g.factories
          /\ pools' = g.pools
          /\ last' = [NoneHandled EXCEPT !.outcome = "pools"]
                         @@ [kind |-> g.kind, value |-> g.value,
                             asked |-> g.asked, fee |-> c[3]]
    /\ UNCHANGED <<shutdown, now, tokens, opps, cleanup, tap, bus,
                   kafkaProducer, proc>>

\* routers an envelope can name: the universal router in both spellings, a
\* V2 and a V3 router, and a router on no list
RoutedRouters == {Lc("ru"), Cs("ru"), Cs("rv2"), Cs("rv3"), Cs("rx")}
RoutedCases ==
    {s \in EvalSwaps : /\ s.deadline = Some(1301) /\ s.tokenIn[1] = "ta"
                       /\ s.amountIn = 10 /\ s.amountOutMin = Some(1)}
        \X RoutedRouters

\* detectOpportunity on a swap whose envelope names router routerAddress.
\* What an observer records: the swap, the router and the RPC behaviour,
\* the factory's answer (asked), the pool used and the verdict.
EvaluateRouted ==
    /\ \E c \in RoutedCases :
       \E decodedTx \in {[c[1] EXCEPT !.router = c[2]]}, routerAddress \in {c[2]},
          rpc \in {[RpcOk EXCEPT !.reserves = <<100, 30000>>]} :
       \E d \in {detectOpportunity(decodedTx, routerAddress, tokens, factories, pools, rpc, now)} :
          /\ tokens' = d.tokens /\ factories' = d.factories /\ pools' = d.pools
          /\ last' = [NoneHandled EXCEPT !.outcome = "routed", !.verdict = Some(d.verdict)]
                         @@ [decodedTx |-> decodedTx, routerAddress |-> routerAddress,
                             rpc |-> rpc, asked |-> d.asked, pool |-> d.pool]
    /\ UNCHANGED <<shutdown, now, opps, cleanup, tap, bus, kafkaProducer, proc>>

\* ------------------------------------------- bigint amounts of real size
\* A bigint beyond 32-bit integers is written as its decimal digits,
\* most significant first, as toString writes it.  The operators below are
\* the bigint +, -, *, / and < of the evaluator on such strings.
RECURSIVE DecTrim(_)
\* s without its leading zeros
DecTrim(s) == IF Len(s) > 1 /\ s[1] = 0 THEN DecTrim(Tail(s)) ELSE s

\* m * 10^e
Dec(m, e) == IF m = 0 THEN <<0>> ELSE toString(m) \o [i \in 1..e |-> 0]

\* s with leading zeros up to n digits
DecPad(s, n) == [i \in 1..n |-> IF i <= n - Len(s) THEN 0 ELSE s[i - (n - Len(s))]]

\* a < b
DecLess(a, b) ==
    \/ Len(a) < Len(b)
    \/ /\ Len(a) = Len(b)
       /\ \E i \in 1..Len(a) : a[i] < b[i] /\ \A j \in 1..(i - 1) : a[j] = b[j]

RECURSIVE DecAddFrom(_, _, _, _)
\* the digits of a + b from the most significant down to digit i, carry in
DecAddFrom(a, b, i, carry) ==
    IF i = 0 THEN <<carry>>
    ELSE Append(DecAddFrom(a, b, i - 1, (a[i] + b[i] + carry) \div 10),
                (a[i] + b[i] + carry) % 10)

\* a + b
DecAdd(a, b) ==
    The({LET n == IF Len(p[1]) > Len(p[2]) THEN Len(p[1]) ELSE Len(p[2])
         IN  DecTrim(DecAddFrom(DecPad(p[1], n), DecPad(p[2], n), n, 0)) :
         p \in {<<a, b>>}})

RECURSIVE DecSubFrom(_, _, _, _)
\* the digits of a - b down to digit i, borrow in
DecSubFrom(a, b, i, borrow) ==
    IF i = 0 THEN <<>>
    ELSE Append(DecSubFrom(a, b, i - 1,
                           IF a[i] - b[i] - borrow < 0 THEN 1 ELSE 0),
                (a[i] - b[i] - borrow + 10) % 10)

\* a - b, for a >= b
DecSub(a, b) ==
    The({DecTrim(DecSubFrom(p[1], DecPad(p[2], Len(p[1])), Len(p[1]), 0)) :
         p \in {<<a, b>>}})

RECURSIVE DecTimesFrom(_, _, _, _)
\* the digits of a * k down to digit i, carry in, for a small k
DecTimesFrom(a, k, i, carry) ==
    IF i = 0 THEN toString(carry)
    ELSE Append(DecTimesFrom(a, k, i - 1, (a[i] * k + carry) \div 10),
                (a[i] * k + carry) % 10)

\* a * k for a small integer k
DecTimes(a, k) == The({DecTrim(DecTimesFrom(p, k, Len(p), 0)) : p \in {a}})

RECURSIVE DecMul(_, _)
\* a * b
DecMul(a, b) ==
    IF Len(b) = 1 THEN DecTimes(a, b[1])
    ELSE The({DecAdd(DecTrim(Append(high, 0)), DecTimes(a, b[Len(b)])) :
              high \in {DecMul(a, SubSeq(b, 1, Len(b) - 1))}})

RECURSIVE DecDivFrom(_, _, _)
\* quotient q and remainder r of the first i digits of a divided by b; a
\* prefix shorter than b is its own remainder
DecDivFrom(a, b, i) ==
    IF i < Len(b) THEN [q |-> <<0>>, r |-> DecTrim(SubSeq(a, 1, i))]
    ELSE The({LET cur == DecTrim(Append(p.r, a[i]))
                  k == CHOOSE k \in 0..9 : /\ ~DecLess(cur, DecTimes(b, k))
                                           /\ DecLess(cur, DecTimes(b, k + 1))
              IN  [q |-> DecTrim(Append(p.q, k)),
                   r |-> DecSub(cur, DecTimes(b, k))] :
              p \in {DecDivFrom(a, b, i - 1)}})

\* floor(a / b), for b > 0
DecDiv(a, b) == The({DecDivFrom(p[1], p[2], Len(p[1])).q : p \in {<<a, b>>}})

\* The V2 path of detectOpportunity from the liquidity check on, for an
\* exact-input swap whose tokens and pool were found and whose reads
\* succeed, on amounts of real size: the liquidity check, the engine's
\* amountOut and price impact, the profit step, the gate and the deadline.
EvaluateV2Wide(amountIn, amountOutMin, reserveIn, reserveOut, deadline, nowMs) ==
    LET amountInToCheck == amountIn
        maxTradeSize == DecDiv(DecTimes(reserveIn, MAX_LIQUIDITY_USAGE), <<1, 0, 0>>)
        rejected ==
            IF amountInToCheck = <<0>> THEN None
            ELSE IF DecLess(maxTradeSize, amountInToCheck)
            THEN Some("Insufficient liquidity")
            ELSE IF DecLess(reserveIn, DecTimes(amountInToCheck, MIN_RESERVE_RATIO))
            THEN Some("Low liquidity")
            ELSE None
        amountInWithFee == DecDiv(DecTimes(amountIn, 997), <<1, 0, 0, 0>>)
        numerator == DecMul(amountInWithFee, reserveOut)
        denominator == DecAdd(DecTimes(reserveIn, 1000), amountInWithFee)
        amountOut == DecDiv(numerator, denominator)
        den == DecMul(DecAdd(reserveIn, amountIn), reserveOut)
        num == DecSub(den, DecMul(DecSub(reserveOut, amountOut), reserveIn))
        hasSignificantImpact ==
            /\ amountInToCheck # <<0>>
            /\ ~DecLess(DecTimes(num, MinImpactDen), DecTimes(den, MinImpactNum))
        profitPotential ==
            IF amountInToCheck = <<0>> \/ amountOut = <<0>> \/ amountOutMin = <<0>>
            THEN None
            ELSE IF DecLess(amountOut, amountOutMin) THEN None
            ELSE Some(DecSub(amountOut, amountOutMin))
        isProfitable == profitPotential # None /\ The(profitPotential) # <<0>>
        currentTimestamp == nowMs \div 1000
    IN  [rejected |-> rejected,
         amountOut |-> IF rejected # None \/ amountInToCheck = <<0>>
                       THEN None ELSE Some(amountOut),
         profitPotential |-> IF rejected # None THEN None ELSE profitPotential,
         isOpportunity |-> rejected = None /\ isProfitable
                           /\ hasSignificantImpact,
         isExpired |-> rejected = None /\ deadline # 0
                       /\ deadline - currentTimestamp <= 0]

\* exact-input swaps of WETH (18 decimals) for USDC (6 decimals) against a
\* pool holding 1000 WETH and 2,000,000 USDC
WideAmountsIn == {Dec(10, 18), Dec(500, 18), Dec(600, 18), Dec(150, 18), Dec(0, 0)}
WideAmountsOutMin == {Dec(1, 18), Dec(1, 6), Dec(19000, 6), Dec(0, 0)}
WideReserves == <<Dec(1000, 18), Dec(2000000, 6)>>

\* detectOpportunity on one of these swaps, with a deadline 600 s ahead,
\* a deadline that has just passed, or none
EvaluateWide ==
    /\ \E amountIn \in WideAmountsIn, amountOutMin \in WideAmountsOutMin,
          deadline \in {now \div 1000 + 600, now \div 1000 - 1, 0} :
          last' = [NoneHandled EXCEPT !.outcome = "wide"]
                      @@ [amountIn |-> amountIn, amountOutMin |-> amountOutMin,
                          deadline |-> deadline,
                          wide |-> EvaluateV2Wide(amountIn, amountOutMin,
                                       WideReserves[1], WideReserves[2],
                                       deadline, now)]
    /\ UNCHANGED <<shutdown, now, tokens, factories, pools, opps, cleanup,
                   tap, bus, kafkaProducer, proc>>

\* ---------------------------------------------- consumer and cleanup task
Init ==
    /\ now = StartMs
    /\ tokens = <<>>
    /\ factories = <<>>
    /\ pools = <<>>
    /\ opps = <<>>
    /\ cleanup = CleanupIdle
    /\ last = NoneHandled
    /\ tap = TapIdle
    /\ bus = <<>>
    /\ kafkaProducer = "unset"
    /\ proc = <<>>
    /\ shutdown = Running

\* The consumer and the cleanup task, each database call a step
Next ==
    \/ HandleMessage
    \/ CleanupExpired
    \/ CleanupPending
    \/ CleanupFlagged
    \/ CleanupFind
    \/ CleanupDelete
    \/ Tick

Spec == Init /\ [][Next]_vars

\* The consumer and the cleanup task, each run a step, every message
\* handling observed
NextConsumer ==
    \/ HandleObserved
    \/ CleanupRun
    \/ Tick

SpecConsumer == Init /\ [][NextConsumer]_vars

\* The consumer and the cleanup task, each run a step, every cleanup run
\* observed
NextCleanup ==
    \/ HandleMessage
    \/ CleanupObserved
    \/ Tick

SpecCleanup == Init /\ [][NextCleanup]_vars

\* The consumer and the cleanup task on its hourly timer
NextSchedule ==
    \/ HandleMessage
    \/ StartCleanupTask
    \/ IntervalFires
    \/ Hour

SpecSchedule == Init /\ [][NextSchedule]_vars

\* The consumer alone, message after message
NextMessages ==
    \/ HandleNext
    \/ Tick

SpecMessages == Init /\ [][NextMessages]_vars

\* The consumer with redeliveries of the message it saved last
NextRedelivery ==
    \/ HandleFirst
    \/ HandleAgain
    \/ Elapse

SpecRedelivery == Init /\ [][NextRedelivery]_vars

\* The mempool tap: its start and the handlers of the pending hashes, each
\* await a step
NextTap ==
    \/ TapStart
    \/ \E t \in TapTxs : Pending(t)
    \/ \E i \in 1..MaxPending : Hydrate(i)
    \/ \E i \in 1..MaxPending : SendStart(i)
    \/ \E i \in 1..MaxPending : SendDone(i)
    \/ Tick

SpecTap == Init /\ [][NextTap]_vars

\* The mempool tap over every kind of transaction, each handler run whole
NextDecode ==
    \/ TapStart
    \/ \E t \in DOMAIN Txs : HandlePending(t)
    \/ Tick

SpecDecode == Init /\ [][NextDecode]_vars

\* The process from its start to its exit on a signal
NextShutdown ==
    \/ TapRunning
    \/ ConsumerCreate
    \/ ConsumerRegister
    \/ Signal
    \/ PrismaDisconnected
    \/ ConsumerDisconnected
    \/ Tick

SpecShutdown == Init /\ [][NextShutdown]_vars

\* Concurrent evaluations at the granularity of their cache lookups
NextCache ==
    \/ \E s \in CacheSwaps : StartEvaluation(s)
    \/ \E i \in 1..MaxProcs : TokenFind(i)
    \/ \E i \in 1..MaxProcs : TokenSave(i)
    \/ \E i \in 1..MaxProcs : FactoryFind(i)
    \/ \E i \in 1..MaxProcs : FactoryInsert(i)
    \/ \E i \in 1..MaxProcs : PairRead(i)
    \/ \E i \in 1..MaxProcs : PoolFindByAddress(i)
    \/ \E i \in 1..MaxProcs : PoolFindByTokens(i)
    \/ \E i \in 1..MaxProcs : PoolSave(i)

SpecCache == Init /\ [][NextCache]_vars

\* The evaluator, each call a step
NextEvaluate ==
    \/ Evaluate
    \/ Tick

SpecEvaluate == Init /\ [][NextEvaluate]_vars

\* The universal-router decoder alone, each call a step
NextUniversal ==
    \/ DecodeUniversal
    \/ Tick

SpecUniversal == Init /\ [][NextUniversal]_vars

\* The consumer on the messages of one universal-router transaction
NextSubActions ==
    \/ HandleSubAction
    \/ Tick

SpecSubActions == Init /\ [][NextSubActions]_vars

\* getPools alone, each call a step
NextPools ==
    \/ GetPoolsCall
    \/ Tick

SpecPools == Init /\ [][NextPools]_vars

\* The evaluator behind every router, each call a step
NextRouted ==
    \/ EvaluateRouted
    \/ Tick

SpecRouted == Init /\ [][NextRouted]_vars

\* The evaluator on swaps of real size, each call a step
NextWide ==
    \/ EvaluateWide
    \/ Tick

SpecWide == Init /\ [][NextWide]_vars

\* The V2 engine, each call a step
NextQuote ==
    \/ Quote
    \/ Tick

SpecQuote == Init /\ [][NextQuote]_vars

\* ================================================================ claims
\* the rows of the opportunity table with key (chainId, txHash)
OppRowsOf(oppTbl, txHash) ==
    {i \in DOMAIN oppTbl : oppTbl[i].chainId = ChainId
                           /\ oppTbl[i].txHash = txHash}

\* C1: after any interleaving of message handlings and cleanup steps, every
\* Opportunity row with status 'detected' stores a priceImpact >= 0.005 and
\* an expectedProfit that is a positive amount
C1_DetectedRowsQualify ==
    \A i \in DOMAIN opps :
        opps[i].status = "detected" =>
            /\ opps[i].priceImpact # None
            /\ FracGE(The(opps[i].priceImpact), MinImpactNum, MinImpactDen)
            /\ opps[i].expectedProfit # None
            /\ IsPositiveDecimal(The(opps[i].expectedProfit))

\* a detected row is in the table while a cleanup run is under way
C1_Witness ==
    /\ cleanup.pc # "idle"
    /\ \E i \in DOMAIN opps : opps[i].status = "detected"

\* C2: no two Opportunity rows share (chainId, txHash); the handling of a
\* message whose txHash is already stored updates the row and adds none
C2_OneRowPerTransaction ==
    /\ [](\A i, j \in DOMAIN opps :
            (opps[i].chainId = opps[j].chainId
             /\ opps[i].txHash = opps[j].txHash) => i = j)
    /\ [][(last'.outcome = "saved" /\ last'.existed) =>
            /\ Len(opps') = Len(opps)
            /\ \A i \in DOMAIN opps : opps'[i].id = opps[i].id
                                      /\ opps'[i].txHash = opps[i].txHash
            /\ \A t \in last'.txHash :
                  Cardinality(OppRowsOf(opps', t)) = 1]_vars

\* a second sub-action of the universal-router transaction was saved over
\* the row of the first
C2_Witness ==
    /\ last.outcome = "saved"
    /\ last.existed
    /\ last.txHash = Some("hur")
    /\ Cardinality(OppRowsOf(opps, "hur")) = 1

\* C3: a handling writes an Opportunity row only if the verdict is an
\* opportunity, and, unless the handling failed (getBlockNumber or the
\* upsert rejected), whenever the verdict is an opportunity; the row's
\* status is 'expired' when the verdict's isExpired holds and 'detected'
\* otherwise, never 'pending'; a handling that writes no row leaves the
\* opportunity table unchanged
C3_RowIffOpportunity ==
    [][last'.outcome # "none" =>
        /\ last'.outcome = "saved" =>
              /\ last'.verdict # None
              /\ The(last'.verdict).isOpportunity
        /\ (last'.verdict # None /\ The(last'.verdict).isOpportunity
            /\ last'.outcome # "error") =>
              /\ last'.outcome = "saved"
              /\ \A t \in last'.txHash : \A i \in OppRowsOf(opps', t) :
                    /\ opps'[i].status =
                          IF The(last'.verdict).isExpired THEN "expired"
                          ELSE "detected"
                    /\ opps'[i].status # "pending"
              /\ \A t \in last'.txHash : OppRowsOf(opps', t) # {}
        /\ (last'.verdict # None /\ ~The(last'.verdict).isOpportunity) =>
              /\ last'.outcome # "saved"
              /\ opps' = opps
        /\ last'.outcome # "saved" => opps' = opps]_vars

\* an opportunity whose deadline has passed was saved as 'expired'
C3_Witness ==
    /\ last.outcome = "saved"
    /\ The(last.verdict).isExpired
    /\ \E t \in last.txHash : \E i \in OppRowsOf(opps, t) :
          opps[i].status = "expired"

\* the age the consumer's clock gives a message: clock minus the envelope
\* timestamp, or minus the broker timestamp when the envelope has none
AgeAt(l, clock) ==
    IF l.envelopeTs # None THEN Some(clock - The(l.envelopeTs))
    ELSE IF l.brokerTs # None THEN Some(clock - The(l.brokerTs))
    ELSE None

\* C4: a message older than 10 minutes is dropped before detect runs and
\* no table changes; a message exactly 10 minutes old is not dropped by
\* the age gate
C4_AgeGate ==
    [][last'.outcome \notin {"none", "empty"} =>
        \A age \in AgeAt(last', now') :
            /\ age > 10 * 60 * 1000 =>
                  /\ last'.outcome = "old"
                  /\ last'.verdict = None
                  /\ UNCHANGED <<shutdown, tokens, factories, pools, opps>>
            /\ age = 10 * 60 * 1000 => last'.outcome # "old"]_vars

\* a message without envelope timestamp whose broker timestamp is one
\* millisecond over 10 minutes old was dropped
C4_Witness ==
    /\ last.outcome = "old"
    /\ last.envelopeTs = None
    /\ last.brokerTs = Some(now - (10 * 60 * 1000 + 1))

\* C9: every address field of every persisted row equals its lowercase form
C9_AddressesLowercase ==
    /\ \A i \in DOMAIN opps :
          /\ IsLowercase(opps[i].routerAddress)
          /\ IsLowercase(opps[i].tokenIn)
          /\ IsLowercase(opps[i].tokenOut)
          /\ \A a \in opps[i].poolAddress : IsLowercase(a)
          /\ \A a \in opps[i].recipient : IsLowercase(a)
    /\ \A i \in DOMAIN pools :
          /\ IsLowercase(pools[i].poolAddress)
          /\ IsLowercase(pools[i].token0)
          /\ IsLowercase(pools[i].token1)
    /\ \A i \in DOMAIN tokens : IsLowercase(tokens[i].tokenAddress)
    /\ \A i \in DOMAIN factories :
          /\ IsLowercase(factories[i].router)
          /\ IsLowercase(factories[i].factoryAddress)
          /\ IsLowercase(factories[i].wethAddress)

\* the kafkaProducer.send calls with message key txHash, in call order
SendsOf(txHash) == SelectSeq(bus, LAMBDA m : m.key = txHash)

\* C5: for a pending hash whose hydrated transaction has a non-null
\* blockNumber, whatever the number, the tap publishes no bus message
C5_MinedNotPublished ==
    \A i \in DOMAIN tap.handlers :
        (tap.handlers[i].fetched # None
         /\ The(tap.handlers[i].fetched) # None) =>
            SendsOf(Txs[tap.handlers[i].tx].hash) = <<>>

\* the command bytes of transaction tx that are recognized sub-actions
Recognized(tx) ==
    SelectSeq(tx.data.commands, LAMBDA c : CMD_TYPE(c) # "UNKNOWN")

\* C6: for a universal-router transaction the tap's sends are one per
\* recognized sub-action, in the order of the command bytes, every one with
\* message key txHash, and a send starts only when the one before it has
\* completed; once the handler (with a producer) has routed the
\* transaction every recognized sub-action has its send, and each send the
\* broker accepted is one message on the bus
C6_OnePerSubAction ==
    \A i \in DOMAIN tap.handlers :
        \A tx \in {Txs[tap.handlers[i].tx]} :
            isAddressInList(tx.to, universalRouter) =>
                \A sends \in {SendsOf(tx.hash)} :
                    /\ Len(sends) <= Len(Recognized(tx))
                    /\ \A k \in DOMAIN sends :
                          /\ sends[k].key = tx.hash
                          /\ sends[k].value.txHash = tx.hash
                          /\ sends[k].value.decodedTx.method =
                                CMD_TYPE(Recognized(tx)[k])
                          /\ k < Len(sends) => sends[k].state # "inflight"
                    /\ (tap.handlers[i].outcome = "routed"
                        /\ kafkaProducer = "ready") =>
                          /\ Len(sends) = Len(Recognized(tx))
                          /\ \A k \in DOMAIN sends :
                                sends[k].state # "inflight"

\* the two sub-actions of transaction hur are on the bus, V3 before V2
C6_Witness ==
    /\ \E i \in DOMAIN tap.handlers :
          /\ Txs[tap.handlers[i].tx].hash = "hur"
          /\ tap.handlers[i].outcome = "routed"
    /\ Len(SendsOf("hur")) = 2
    /\ \A k \in 1..2 : SendsOf("hur")[k].state = "acked"
    /\ SendsOf("hur")[1].value.decodedTx.method = "V3_EXACT_IN"
    /\ SendsOf("hur")[2].value.decodedTx.method = "V2_EXACT_IN"

\* C7: two evaluations that concurrently miss the same token, factory or
\* pool key and both write it complete without a unique-constraint error,
\* and one row exists for the key
C7_NoUniqueConstraintError ==
    /\ \A i \in DOMAIN proc : proc[i].error # "unique"
    /\ \A i, j \in DOMAIN tokens :
          tokens[i].tokenAddress = tokens[j].tokenAddress => i = j
    /\ \A i, j \in DOMAIN factories :
          factories[i].router = factories[j].router => i = j
    /\ \A i, j \in DOMAIN pools :
          pools[i].poolAddress = pools[j].poolAddress => i = j

\* C8: each of the token, factory and pool tables holds at most one row per
\* key, addresses compared case-insensitively
C8_OneRowPerKeyAnyCase ==
    /\ \A i, j \in DOMAIN tokens :
          toLowerCase(tokens[i].tokenAddress)
              = toLowerCase(tokens[j].tokenAddress) => i = j
    /\ \A i, j \in DOMAIN factories :
          toLowerCase(factories[i].router)
              = toLowerCase(factories[j].router) => i = j
    /\ \A i, j \in DOMAIN pools :
          toLowerCase(pools[i].poolAddress)
              = toLowerCase(pools[j].poolAddress) => i = j

\* C10: when the factory's answer for the requested (tokenA, tokenB, fee)
\* is the zero address, getPools returns null
C10_ZeroAddressIsAbsent ==
    \A i \in DOMAIN proc :
        (proc[i].pc = "done" /\ proc[i].kind = "ok"
         /\ proc[i].asked = Some(ZeroAddress)) => proc[i].value = None

\* C11: every row of the pool table has a lowercase poolAddress that is not
\* the zero address, and no step of a lookup that the factory answered
\* with the zero address changes the pool table
C11_PoolRowsValid ==
    /\ [](\A i \in DOMAIN pools :
            /\ IsLowercase(pools[i].poolAddress)
            /\ isValidPoolAddress(pools[i].poolAddress))
    /\ [][\A i \in DOMAIN proc :
            (proc[i].asked = Some(ZeroAddress) /\ proc'[i] # proc[i])
                => pools' = pools]_vars

\* a pool row is stored, and a lookup that the factory answered with the
\* zero address has returned null
C11_Witness ==
    /\ Len(pools) > 0
    /\ \E i \in DOMAIN proc :
          /\ proc[i].pc = "done"
          /\ proc[i].asked = Some(ZeroAddress)
          /\ proc[i].value = None

\* C12: every published swap whose routerType is v2 carries fee "0"
C12_V2FeeIsZero ==
    \A k \in DOMAIN bus :
        bus[k].value.decodedTx.routerType = "v2"
            => bus[k].value.decodedTx.fee = Some(0)

\* C13: tokenIn, tokenOut and recipient of every published swap are in
\* lowercase form
C13_DecodedAddressesLowercase ==
    \A k \in DOMAIN bus :
        \A a \in {bus[k].value.decodedTx.tokenIn,
                  bus[k].value.decodedTx.tokenOut,
                  bus[k].value.decodedTx.recipient} :
            normalizeAddress(a) = a

\* C14: for an execute call whose command bytes are all unrecognized tags
\* decodeUniversalRouterFull returns the empty list, and the tap publishes
\* nothing for the transaction
C14_UnknownTagsDecodeEmpty ==
    \A i \in DOMAIN tap.handlers :
        \A tx \in {Txs[tap.handlers[i].tx]} :
            (/\ tx.data.abi = "ur"
             /\ \A k \in DOMAIN tx.data.commands :
                   tx.data.commands[k] \notin {0, 1, 8, 9})
                => /\ decodeUniversalRouterFull(tx) = Some(<<>>)
                   /\ SendsOf(tx.hash) = <<>>

\* the handler of an execute call of unrecognized tags only has run to the
\* end of its routing, with a producer, while another transaction was
\* published
C14_Witness ==
    /\ kafkaProducer = "ready"
    /\ \E i \in DOMAIN tap.handlers :
          /\ Txs[tap.handlers[i].tx].hash = "hurx"
          /\ tap.handlers[i].fetched = Some(None)
          /\ tap.handlers[i].outcome = "routed"
    /\ Len(bus) > 0

\* C15: bad calldata yields nothing published: a transaction whose calldata
\* the V2 / V3 router ABI cannot parse has no send, and no published swap
\* lacks its tokenIn or tokenOut (a recognized universal-router command
\* whose input fails to ABI-decode contributes no swap)
C15_BadCalldataEmitsNothing ==
    /\ \A i \in DOMAIN tap.handlers :
          Txs[tap.handlers[i].tx].data.abi = "none"
              => SendsOf(Txs[tap.handlers[i].tx].hash) = <<>>
    /\ \A k \in DOMAIN bus :
          /\ bus[k].value.decodedTx.tokenIn # Undefined
          /\ bus[k].value.decodedTx.tokenOut # Undefined

\* C16: right after a cleanup run that nothing interleaved with, the
\* opportunity table holds no row of status expired, none of status
\* pending, and no detected row whose metadata.isExpired is true or whose
\* metadata.deadlineTimestamp (Unix seconds) lies before the current time
C16_CleanupLeavesNoExpired ==
    last.outcome = "cleanup" =>
        \A i \in DOMAIN opps :
            /\ opps[i].status \notin {"expired", "pending"}
            /\ opps[i].status = "detected" =>
                  /\ ~opps[i].metadata.isExpired
                  /\ \A deadlineTimestamp \in
                            opps[i].metadata.deadlineTimestamp :
                        deadlineTimestamp >= now \div 1000

\* a cleanup run has just removed a detected row whose deadline had passed
\* while its isExpired flag was never set, and a row of status expired
C16_Witness ==
    /\ last.outcome = "cleanup"
    /\ \E r \in last.removed :
          /\ r.status = "detected"
          /\ ~r.metadata.isExpired
          /\ The(r.metadata.deadlineTimestamp) < now \div 1000
    /\ \E r \in last.removed : r.status = "expired"

\* C17: a message handling that ran into an error (unparseable JSON, a
\* failed block-number read, a failed upsert) ends in the handler with the
\* opportunity table as it was
C17_ErrorsAreContained ==
    [][last'.outcome = "error" => opps' = opps]_vars

\* the handling of a message whose swap is an opportunity failed at the
\* block-number read or at the upsert, and the message after it has just
\* been handled and its opportunity saved
C17_Witness ==
    /\ last.outcome = "saved"
    /\ last.after = "error"
    /\ Len(opps) > 1

\* C18: when the process has exited on a signal it has closed the bus
\* producer and the bus consumer it had, and its disconnect of the
\* database has completed
C18_ShutdownClosesEverything ==
    shutdown.exited =>
        /\ kafkaProducer # "ready"
        /\ shutdown.consumer \in {"none", "disconnected"}
        /\ shutdown.prisma \in {"disconnected", "failed"}

\* C19: every swap the tap serialized into a bus envelope is, once the
\* consumer has rehydrated it, equal field by field to the swap the decoder
\* emitted, amountIn included after its passage through the decimal string
C19_EnvelopeRoundTrip ==
    \A i \in DOMAIN tap.handlers :
        \A tx \in {Txs[tap.handlers[i].tx]} :
        \A sends \in {SendsOf(tx.hash)} :
            \A k \in DOMAIN sends :
                ProcessedDecodedTx(sends[k].value) = Decoded(tx)[k]

\* envelopes were published of a swap whose amountIn has four decimal
\* digits and of a swap with undefined fields
C19_Witness ==
    /\ \E k \in DOMAIN bus :
          /\ bus[k].value.decodedTx.amountIn = <<1, 2, 0, 5>>
          /\ ProcessedDecodedTx(bus[k].value).amountIn = 1205
    /\ \E k \in DOMAIN bus : bus[k].value.decodedTx.fee = None

\* C20 as stated: when the message of a saved opportunity is handled again
\* (same envelope, same RPC answers) the metadata of its row is what the
\* handling before wrote
C20_RehandlingKeepsMetadata ==
    [][("again" \in DOMAIN last' /\ last'.again /\ last'.outcome = "saved")
        => \A t \in last'.txHash :
           \A i \in OppRowsOf(opps', t) : \A j \in OppRowsOf(opps, t) :
               opps'[i].metadata = opps[j].metadata]_vars

\* C20 amended: when the message of a saved opportunity is handled again
\* (same envelope, same RPC answers) at the same clock reading, the
\* metadata of its row is what the handling before wrote
C20_RehandlingAtSameTimeKeepsMetadata ==
    [][("again" \in DOMAIN last' /\ last'.again /\ last'.outcome = "saved"
        /\ last'.at = last'.prevAt)
        => \A t \in last'.txHash :
           \A i \in OppRowsOf(opps', t) : \A j \in OppRowsOf(opps, t) :
               opps'[i].metadata = opps[j].metadata]_vars

\* the message of a saved opportunity has just been handled again at the
\* clock reading of its first handling, and its row rewritten
C20_Witness ==
    /\ "again" \in DOMAIN last
    /\ last.again
    /\ last.outcome = "saved"
    /\ last.at = last.prevAt
    /\ \E t \in last.txHash : \E i \in OppRowsOf(opps, t) :
          opps[i].status = "detected"

\* amountInEffective of the evaluator's contract
EffectiveAmount(decodedTx) ==
    IF decodedTx.amountIn = 0 /\ decodedTx.amountInMax # None
       /\ The(decodedTx.amountInMax) > 0
    THEN The(decodedTx.amountInMax)
    ELSE decodedTx.amountIn

\* the evaluation l reached the steps after the liquidity check
PastLiquidity(l) ==
    /\ l.outcome = "evaluated"
    /\ l.pool # None
    /\ LiquidityCheck(l.decodedTx, The(l.pool),
                      EffectiveAmount(l.decodedTx), l.rpc) = None

\* the amountOut the price-impact engine produced in evaluation l, if any
EngineOut(l) ==
    IF ~PastLiquidity(l) THEN None
    ELSE LET impact == PriceImpactStep(l.decodedTx, The(l.pool),
                           EffectiveAmount(l.decodedTx),
                           The(The(l.verdict).tokenInDecimals),
                           The(The(l.verdict).tokenOutDecimals), l.rpc)
         IN  IF impact = None THEN None ELSE Some(The(impact).amountOut)

\* C23: whenever the price-impact engine produced an amountOut and the
\* swap's amountOutMin is a non-negative integer, zero included, the
\* verdict's expectedProfit is amountOut - amountOutMin when amountOut is the
\* larger, zero when they are equal, and undefined when amountOut is the
\* smaller.
C23_ProfitFromMinimum ==
    (EngineOut(last) # None /\ last.decodedTx.amountOutMin # None)
    => LET amountOut == The(EngineOut(last))
           amountOutMin == The(last.decodedTx.amountOutMin)
           dOut == The(The(last.verdict).tokenOutDecimals)
           expectedProfit == The(last.verdict).profitPotential
       IN  /\ amountOut > amountOutMin
                => expectedProfit
                      = Some(formatUnits(amountOut - amountOutMin, dOut))
           /\ amountOut = amountOutMin
                => expectedProfit = Some(formatUnits(0, dOut))
           /\ amountOut < amountOutMin => expectedProfit = None

\* C24: for every swap that reaches the deadline step with a deadline of d
\* unix seconds, zero included: d > now gives isExpired = false and
\* timeToSubmitSeconds = d - now; d <= now gives isExpired = true and
\* timeToSubmitSeconds = 0.
C24_DeadlineClassified ==
    (PastLiquidity(last) /\ last.decodedTx.deadline # None)
    => LET d == The(last.decodedTx.deadline)
           nowSeconds == now \div 1000
           verdict == The(last.verdict)
       IN  /\ d > nowSeconds
                => /\ ~verdict.isExpired
                   /\ verdict.timeToSubmitSeconds = Some(d - nowSeconds)
           /\ d <= nowSeconds
                => /\ verdict.isExpired
                   /\ verdict.timeToSubmitSeconds = Some(0)

C26_LiquidityGate ==
    (/\ last.outcome = "evaluated"
     /\ last.pool # None
     /\ last.decodedTx.routerType = "v2"
     /\ EffectiveAmount(last.decodedTx) > 0
     /\ last.rpc.liqOk)
    => LET amountInEffective == EffectiveAmount(last.decodedTx)
           reserveIn == IF toLowerCase(last.decodedTx.tokenIn)
                              = toLowerCase(ChainToken0(The(last.pool).poolAddress))
                        THEN last.rpc.reserves[1] ELSE last.rpc.reserves[2]
       IN  (2 * amountInEffective > reserveIn
            \/ reserveIn < 10 * amountInEffective)
           => ~The(last.verdict).isOpportunity

\* a trade of exactly half the reserve of tokenIn was evaluated, with a
\* minimum output under what the pool pays
C26_Witness ==
    /\ last.outcome = "evaluated"
    /\ last.pool # None
    /\ last.decodedTx.routerType = "v2"
    /\ last.decodedTx.tokenIn = Cs("ta")
    /\ last.rpc.liqOk
    /\ 2 * last.decodedTx.amountIn = last.rpc.reserves[1]
    /\ last.decodedTx.amountOutMin = Some(1)
    /\ ~The(last.verdict).isOpportunity

\* C27: a getPools call for a key whose pool an earlier call has stored
\* makes no on-chain getPair / getPool call.
C27_SecondLookupFromDatabase ==
    (last.outcome = "evaluated" /\ last.stored) => last.asked = None

\* C30: for amountIn >= 0, reserveIn > 0 and reserveOut >= 0 the V2 engine's
\* amountOut is floor(amountIn * 997 * reserveOut / (reserveIn * 1000 +
\* amountIn * 997)), and it is 0 for amountIn = 0.
C30_CanonicalAmountOut ==
    last.outcome = "quoted"
    => LET isToken0In == toLowerCase(last.tokenIn) = Lc("ta")
           reserveIn == IF isToken0In THEN last.reserves[1]
                        ELSE last.reserves[2]
           reserveOut == IF isToken0In THEN last.reserves[2]
                         ELSE last.reserves[1]
       IN  reserveIn > 0
           => /\ last.impact # None
              /\ The(last.impact).amountOut
                    = (last.amountIn * 997 * reserveOut)
                          \div (reserveIn * 1000 + last.amountIn * 997)
              /\ last.amountIn = 0 => The(last.impact).amountOut = 0

\* C29: when the bus producer could not be connected the tap's task ends:
\* the tap takes no pending hash while it has no producer.
C29_TapStopsWithoutProducer ==
    kafkaProducer = "null" => tap.handlers = <<>>

\* C22: for each pending hash another getTransaction attempt is started
\* only after fewer than three failed ones and only after a timeout-class
\* failure, the n-th, followed by a wait of 500 * 2^(n-1) ms; a failure of
\* another class ends the handling of the hash; and nothing is published
\* for a hash whose handling ended in a failure.
C22_RetryOnTimeoutOnly ==
    \A i \in DOMAIN tap.handlers :
       LET h == tap.handlers[i]
       IN  /\ h.pc = "fetch" => h.retries < 3
           /\ (h.pc = "fetch" /\ h.retries > 0)
                 => h.error = "timeout" /\ h.delay = 500 * (2 ^ (h.retries - 1))
           /\ h.error = "other"
                 => h.pc = "done" /\ h.outcome \in {"failed", "gaveup"}
           /\ h.outcome \in {"failed", "gaveup"}
                 => h.pc = "done" /\ SendsOf(Txs[h.tx].hash) = <<>>

\* one hash is waiting 1000 ms for its third attempt, and the handling of
\* another ended on an error that was not a timeout
C22_Witness ==
    /\ \E i \in DOMAIN tap.handlers :
          /\ tap.handlers[i].pc = "fetch"
          /\ tap.handlers[i].retries = 2
          /\ tap.handlers[i].delay = 1000
    /\ \E i \in DOMAIN tap.handlers :
          /\ tap.handlers[i].outcome = "failed"
          /\ tap.handlers[i].error = "other"

\* C28: once the cleanup task is started the cleanup has run at startup and
\* once more for every 60 minutes since, whether or not earlier runs
\* failed: between the hours the runs number one more than the whole hours
\* elapsed, and on the hour the timer is armed and due for the missing run.
C28_HourlyCleanup ==
    cleanup.pc # "idle"
    => LET elapsed == (now - cleanup.started) \div 3600000
       IN  /\ cleanup.runs >= 1
           /\ cleanup.runs \in {elapsed, elapsed + 1}
           /\ cleanup.runs = elapsed
                 => /\ cleanup.pc = "armed"
                    /\ cleanup.due = now

\* the run at startup and the first run of the timer both failed, and the
\* timer ran the cleanup again an hour later
C28_Witness ==
    /\ cleanup.pc = "armed"
    /\ cleanup.runs = 3
    /\ cleanup.lastFailed = 2
    /\ now = cleanup.started + 2 * 3600000

\* C21: in the V2 exact-in scenario (amountIn 10 * 10^18, amountOutMin
\* 1 * 10^18, reserves 1000 * 10^18 WETH and 2,000,000 * 10^6 USDC, deadline
\* now + 600) the evaluator passes the liquidity check, finds an expected
\* profit above zero and returns an opportunity that is not expired, which
\* the consumer stores as 'detected'.
C21_ScenarioDetected ==
    (/\ last.outcome = "wide"
     /\ last.amountIn = Dec(10, 18)
     /\ last.amountOutMin = Dec(1, 18)
     /\ last.deadline = now \div 1000 + 600)
    => /\ last.wide.rejected = None
       /\ last.wide.profitPotential # None
       /\ The(last.wide.profitPotential) # <<0>>
       /\ last.wide.isOpportunity
       /\ ~last.wide.isExpired

\* C31: every evaluation that reaches the pool cache leaves the factory and
\* pool tables, and gets the factory's answer, as getPools leaves and
\* answers them for the canonical V2 router (family v2) or the canonical V3
\* router (family v3) when the envelope's router is the universal router in
\* any spelling, and for the envelope's router itself otherwise.
C31_CanonicalRouter ==
    [][(last'.outcome = "routed"
        /\ The(last'.verdict).reason # "Token information not available")
       => LET decodedTx == last'.decodedTx
              router == IF last'.routerAddress[1] # "ru" THEN last'.routerAddress
                        ELSE IF decodedTx.routerType = "v2" THEN Lc("rv2")
                        ELSE Lc("rv3")
              p == getPools(factories, pools, decodedTx.tokenIn,
                            decodedTx.tokenOut, router, decodedTx.routerType,
                            decodedTx.fee, last'.rpc)
          IN  /\ factories' = p.factories
              /\ pools' = p.pools
              /\ last'.asked = p.asked
              /\ last'.pool = p.value]_vars

\* a V2 and a V3 swap sent through the universal router, spelled in
\* checksum case, were evaluated against the pools of the V2 and V3
\* factories
C31_Witness ==
    /\ last.outcome = "routed"
    /\ last.routerAddress = Cs("ru")
    /\ last.decodedTx.routerType = "v3"
    /\ last.asked = Some(Cs("p3"))
    /\ \E r \in Rows(pools) : r.poolAddress = Lc("p2")
    /\ \E r \in Rows(pools) : r.poolAddress = Lc("p3")

\* C32: when the liquidity read of an evaluation throws, the verdict is the
\* one the price-impact, profit and deadline steps give: its price impact is
\* the engine's, it is an opportunity exactly when the profit over the
\* minimum output is positive and the impact is at least 0.5%, and its
\* deadline fields are those of the deadline step.
C32_LiquidityReadFailureIgnored ==
    (last.outcome = "evaluated" /\ last.pool # None /\ ~last.rpc.liqOk)
    => LET decodedTx == last.decodedTx
           verdict == The(last.verdict)
           impact == PriceImpactStep(decodedTx, The(last.pool),
                         EffectiveAmount(decodedTx),
                         The(verdict.tokenInDecimals),
                         The(verdict.tokenOutDecimals), last.rpc)
           profit == ProfitStep(decodedTx,
                                IF impact = None THEN None
                                ELSE Some(The(impact).amountOut))
           significant == /\ impact # None
                          /\ The(impact).priceImpact[2] > 0
                          /\ The(impact).priceImpact[1] * 1000
                                >= 5 * The(impact).priceImpact[2]
       IN  /\ verdict.priceImpact
                 = (IF impact = None THEN None
                    ELSE Some(The(impact).priceImpact))
           /\ verdict.isOpportunity
                 = (profit # None /\ The(profit) > 0 /\ significant)
           /\ verdict.deadlineTimestamp
                 = DeadlineStep(decodedTx, now).deadlineTimestamp
           /\ verdict.timeToSubmitSeconds
                 = DeadlineStep(decodedTx, now).timeToSubmitSeconds
           /\ verdict.isExpired = DeadlineStep(decodedTx, now).isExpired

\* the reserve read threw for a trade of more than half the reserve, which
\* was priced and returned as an opportunity
C32_Witness ==
    /\ last.outcome = "evaluated"
    /\ ~last.rpc.liqOk
    /\ last.decodedTx.routerType = "v2"
    /\ last.decodedTx.amountIn = 51
    /\ last.rpc.reserves = <<100, 30000>>
    /\ The(last.verdict).isOpportunity

\* C33: a cleanup run removes no detected row whose metadata.isExpired is
\* false and whose metadata.deadlineTimestamp (Unix seconds) is later than
\* the current time.
C33_CleanupKeepsLiveRows ==
    last.outcome = "cleanup" =>
        \A r \in last.removed :
            ~(/\ r.status = "detected"
              /\ ~r.metadata.isExpired
              /\ r.metadata.deadlineTimestamp # None
              /\ The(r.metadata.deadlineTimestamp) > now \div 1000)

\* C34: whenever the factory answers a non-zero pool address P, getPools
\* returns the pool record whose poolAddress is P in lowercase.
C34_ReturnsTheFactoryPool ==
    (/\ last.outcome = "pools"
     /\ last.asked # None
     /\ isValidPoolAddress(The(last.asked)))
    => /\ last.kind = "ok"
       /\ last.value # None
       /\ The(last.value).poolAddress = toLowerCase(The(last.asked))

\* C35: in every reachable state each persisted Opportunity's tokenIn and
\* tokenOut have a Token row of the same chainId; the row's tokens are the
\* lowercase addresses of the swap the evaluator resolved.
C35_OpportunityTokensCached ==
    \A r \in Rows(opps) :
        /\ r.tokenIn = toLowerCase(r.metadata.decodedTx.tokenIn)
        /\ r.tokenOut = toLowerCase(r.metadata.decodedTx.tokenOut)
        /\ \E t \in Rows(tokens) :
              t.chainId = r.chainId /\ t.tokenAddress = r.tokenIn
        /\ \E t \in Rows(tokens) :
              t.chainId = r.chainId /\ t.tokenAddress = r.tokenOut

C35_Witness ==
    /\ last.outcome = "saved"
    /\ \E r \in Rows(opps) :
          /\ Some(r.txHash) = last.txHash
          /\ r.metadata.decodedTx.tokenIn = Cs("ta")
          /\ r.tokenIn = Lc("ta")
          /\ \E t \in Rows(tokens) : t.tokenAddress = Lc("ta")

\* the row with index i of oppTbl holds the columns of sub-action tx
ReflectsSubAction(oppTbl, i, tx) ==
    /\ oppTbl[i].metadata.decodedTx = serializeDecodedTx(tx)
    /\ oppTbl[i].routerType = tx.routerType
    /\ oppTbl[i].method = tx.method
    /\ oppTbl[i].tokenIn = toLowerCase(tx.tokenIn)
    /\ oppTbl[i].tokenOut = toLowerCase(tx.tokenOut)
    /\ oppTbl[i].tokenInAmount = toString(tx.amountIn)
    /\ oppTbl[i].tokenOutAmount = tx.amountOut
    /\ oppTbl[i].fee = (IF tx.fee = None THEN 0 ELSE The(tx.fee))

\* C36: when the message of one sub-action of a universal-router
\* transaction has been handled, the (chainId, txHash) row is the one row
\* of that key and holds this sub-action if its verdict was an opportunity,
\* and the table is as it was if the verdict was not an opportunity; so
\* after the last message the row reflects the last sub-action that was an
\* opportunity.
C36_LastOpportunityStored ==
    [][("message" \in DOMAIN last' /\ last'.outcome \in {"saved", "skipped"})
        => LET tx == ProcessedDecodedTx(The(last'.message.value))
               t == The(last'.txHash)
           IN  IF The(last'.verdict).isOpportunity
               THEN /\ Cardinality(OppRowsOf(opps', t)) = 1
                    /\ \A i \in OppRowsOf(opps', t) :
                          ReflectsSubAction(opps', i, tx)
               ELSE opps' = opps]_vars

\* the V2 sub-action of the universal-router transaction was just handled
\* and was no opportunity, while the row holds the third sub-action
C36_Witness ==
    /\ "message" \in DOMAIN last
    /\ last.outcome = "skipped"
    /\ ~The(last.verdict).isOpportunity
    /\ The(last.message.value).decodedTx.method = "V2_EXACT_IN"
    /\ \E i \in OppRowsOf(opps, The(last.txHash)) :
          /\ opps[i].status = "detected"
          /\ opps[i].metadata.decodedTx.amountOutMin = Some(2)
          /\ ~ReflectsSubAction(opps, i,
                  ProcessedDecodedTx(The(last.message.value)))

\* C37: a V3 swap whose quoted execution price (received / sent) is below
\* the pool's mid price by at least 0.5% of the mid price has a priceImpact
\* of at least 0.005 in its verdict, and so passes the price-impact gate.
C37_V3ImpactByMagnitude ==
    (/\ PastLiquidity(last)
     /\ last.decodedTx.routerType = "v3"
     /\ last.decodedTx.amountIn > 0
     /\ last.decodedTx.fee # None
     /\ last.rpc.priceOk
     /\ last.rpc.quote # None)
    => LET dIn == The(The(last.verdict).tokenInDecimals)
           dOut == The(The(last.verdict).tokenOutDecimals)
           m == Min(dIn, dOut)
           mid == getMidPrice(The(last.pool).poolAddress,
                              last.decodedTx.tokenIn, last.decodedTx.tokenOut,
                              last.rpc.mid)
           received == The(last.rpc.quote) * Pow10(dIn - m)
           sent == last.decodedTx.amountIn * Pow10(dOut - m)
       IN  (/\ mid[1] > 0
            /\ mid[2] > 0
            /\ (mid[1] * sent - received * mid[2]) * MinImpactDen
                  >= MinImpactNum * mid[1] * sent)
           => /\ The(last.verdict).priceImpact # None
              /\ FracGE(The(The(last.verdict).priceImpact),
                        MinImpactNum, MinImpactDen)

\* C38: for a universal-router V2_EXACT_IN or V2_EXACT_OUT sub-action with
\* a path of two or more addresses, the DecodedSwap's tokenIn is the first
\* and its tokenOut the last address of the path.
C38_V2PathEnds ==
    last.outcome = "decoded"
    => LET input == last.tx.data.inputs[1]
       IN  (input.shape = "v2" /\ Len(input.path) >= 2)
           => /\ last.actions # None
              /\ Len(The(last.actions)) = 1
              /\ The(last.actions)[1].tokenIn = input.path[1]
              /\ The(last.actions)[1].tokenOut = Last(input.path)

\* C39: each amount field of a DecodedSwap of the universal-router decoder
\* is the value of the sub-action's input tuple: amountIn and amountOutMin
\* for V2_EXACT_IN and V3_EXACT_IN, amountOut and amountInMax for
\* V2_EXACT_OUT and V3_EXACT_OUT.
C39_AmountsFromTuple ==
    last.outcome = "decoded"
    => LET input == last.tx.data.inputs[1]
       IN  /\ last.actions # None
           /\ Len(The(last.actions)) = 1
           /\ LET action == The(last.actions)[1]
              IN  IF action.method \in {"V2_EXACT_IN", "V3_EXACT_IN"}
                  THEN /\ action.amountIn = input.x1
                       /\ action.amountOutMin = Some(input.x2)
                  ELSE /\ action.amountOut = Some(input.x1)
                       /\ action.amountInMax = Some(input.x2)

====
